---- MODULE Spec2Model ----
(***************************************************************************)
(* Data-dependency tracking of the DART tasking runtime                    *)
(* (dart_tasking_datadeps.c): the dependency hash, the free list of hash   *)
(* elements, the list of unhandled remote dependencies, and the handlers   *)
(* that register tasks, serve remote requests and release successors.      *)
(*                                                                         *)
(* The code of every handler is cut into steps.  A step is the code        *)
(* between two points at which another thread can observe or block the     *)
(* caller: a mutex acquisition, an unlocked read of a shared list head, a   *)
(* message send.  Each step is an operator from a state record s (the      *)
(* variables as fields) and a thread k to the state after the step.        *)
(* Spec runs every handler to its return in one action; SpecConc lets the  *)
(* threads take their steps in any order; SpecSpawn does so for threads    *)
(* that only create, run and finish tasks; SpecLock for threads that       *)
(* register writers of one address, serve requests on it and flush.        *)
(*                                                                         *)
(* Locality (locality.c): the tree of locality domains built from the      *)
(* gathered unit localities, the lookup of a domain by its tag, and the    *)
(* locality record a unit fills for itself.  These are functions of their  *)
(* inputs; SpecLoc draws the inputs from bounded sets and applies them.    *)
(***************************************************************************)
EXTENDS Integers, Sequences, FiniteSets, Bags, TLC

\* ---------------------------------------------------------------- bounds
NumTasks == 3
NumThreads == 2
NumRemote == 2
MaxPhase == 1
\* tasks created plus remote requests served, over a whole run
MaxLoad == 3
\* the same, when the threads interleave step by step
ConcLoad == 2
\* tasks created when the threads only create and run tasks
SpawnLoad == 3

LockLoad == 3
\* the same, with tasks that are run and a reset
DeadLoad == 4
\* tasks created when tasks have two dependencies of one slot
SlotLoad == 2
\* offsets hashed: every offset up to HashDense, and the 64-bit offsets
\* with at most two 1 bits or at most one 0 bit
HashDense == 1023
\* the same, when tasks of two addresses of one slot are released
ChainLoad == 4
\* units, hosts and NUMA domains of the locality tree
\* units of the team that sorts
MaxTeam == 9
MaxUnits == 3
MaxNuma == 2

\* ------------------------------------------------------ program constants
DART_DEPHASH_SIZE == 1024
NULL == 0
myid == 0

Tasks == 1 .. NumTasks
Threads == 1 .. NumThreads
\* handles of tasks living on other units (the "remote" arm of taskref)
RTasks == 101 .. (100 + NumRemote)
\* the units other than myid
Origins == {1}
Phases == 0 .. MaxPhase

\* 0x4000 and 0x88 share slot 17; 0x2000 lives in slot 8
LocalAddrs == <<16384, 136, 8192>>
AddrA == LocalAddrs[1]
AddrA2 == LocalAddrs[2]
AddrB == LocalAddrs[3]

\* every task has at most two dependencies, every local dependency and every
\* remote request takes one element, every direct request one more
MaxElems == 2 * NumTasks + 2 * NumRemote

Elems == 1 .. MaxElems

IS_OUT_DEP(type) == type \in {"OUT", "INOUT"}

\* an unsigned 64-bit value, as the set of the positions of its 1 bits
U64Width == 64

\* the bits of a number below 2^31 (addresses of the model)
BitsOf(n) == {i \in 0 .. 30 : (n \div 2^i) % 2 = 1}

\* x >> n on uint64_t: the bits shifted out at the low end are lost, zeros
\* come in at the top
Shr(x, n) == {i - n : i \in {j \in x : j >= n}}

\* x ^ y
Xor(x, y) == (x \ y) \cup (y \ x)

\* 2^i % m without a number above 2^31 (m up to 2^15)
RECURSIVE Pow2Mod(_, _)
Pow2Mod(i, m) ==
  IF i <= 20 THEN (2^i) % m
  ELSE (Pow2Mod(i - 20, m) * ((2^20) % m)) % m

\* x % m: the sum of the residues of the 1 bits, reduced once more
Mod(x, m) ==
  BagCardinality([i \in {j \in x : Pow2Mod(j, m) > 0} |-> Pow2Mod(i, m)]) % m

\* the slot is the low three bits dropped, nothing folded in
hash_offset_NoFold(offset) == Mod(Shr(offset, 3), DART_DEPHASH_SIZE)

\* hash_gptr on the 64-bit offset of the pointer
hash_offset(offset) ==
  LET o == Shr(offset, 3)
  IN Mod(Xor(Xor(Xor(o, Shr(o, 7)), Shr(o, 11)), Shr(o, 17)),
         DART_DEPHASH_SIZE)

hash_gptr(offset) == hash_offset(BitsOf(offset))

ZeroElem ==
  [next |-> NULL, task |-> NULL, type |-> "ZERO", unit |-> 0, addr |-> 0, phase |-> 0]

VARIABLES
  elem,                  \* the heap of dart_dephash_elem_t, by address 1..MaxElems
  nalloc,                \* number of elements calloc() has handed out
  local_deps,            \* slot -> head element, for the slots whose head is not NULL
  freelist_head,
  unhandled_remote_deps,
  local_deps_mutex,      \* NULL or the thread holding it
  task,                  \* the dart_task_t objects
  queue,                 \* thread -> its ready queue
  th,                    \* thread -> position and locals of the call it is in
  msgs,                  \* bag of what was handed to dart_tasking_remote_*
  direct_pending,        \* local task -> direct requests not yet answered
  last_ret,              \* return value of the datadeps call that returned last
  cur_phase,             \* the phase new tasks are created in
  ended_phase,           \* last phase given to end_phase, -1 if none
  reqs,                  \* remote task handle -> the IN request received from
                         \* it, and the phase the unit was in at that time
  direct_seen,           \* remote task handles whose direct request arrived
  unit_locality,         \* unit -> its host, NUMA id and domain tag
  hwinfo,                \* what the hardware probe of the local unit reports
  domain_root,           \* the locality tree, path of child indices -> domain
  loc_call,              \* the locality call that returned last, its result
  hash_call,             \* the call of hash_gptr that returned last, its result
  merge                  \* the local merge of a sort: the chunk dependencies,
                         \* the position of the submitting loop, the tasks

datadeps_vars ==
  <<elem, nalloc, local_deps, freelist_head, unhandled_remote_deps,
    local_deps_mutex, task, queue, th, msgs, direct_pending, last_ret,
    cur_phase, ended_phase, reqs, direct_seen>>

locality_vars == <<unit_locality, hwinfo, domain_root, loc_call>>

hash_vars == <<hash_call>>

merge_vars == <<merge>>

vars == <<datadeps_vars, locality_vars, hash_vars, merge_vars>>

\* the variables the handlers work on, as one record
S ==
  [elem |-> elem, nalloc |-> nalloc, local_deps |-> local_deps,
   freelist_head |-> freelist_head,
   unhandled_remote_deps |-> unhandled_remote_deps,
   local_deps_mutex |-> local_deps_mutex, task |-> task, queue |-> queue,
   th |-> th, msgs |-> msgs, direct_pending |-> direct_pending,
   last_ret |-> last_ret]

Assign(s) ==
  /\ elem' = s.elem
  /\ nalloc' = s.nalloc
  /\ local_deps' = s.local_deps
  /\ freelist_head' = s.freelist_head
  /\ unhandled_remote_deps' = s.unhandled_remote_deps
  /\ local_deps_mutex' = s.local_deps_mutex
  /\ task' = s.task
  /\ queue' = s.queue
  /\ th' = s.th
  /\ msgs' = s.msgs
  /\ direct_pending' = s.direct_pending
  /\ last_ret' = s.last_ret

SlotHead(s, slot) ==
  IF slot \in DOMAIN s.local_deps THEN s.local_deps[slot] ELSE NULL

\* the first n elements reachable from head e over next, in order
RECURSIVE ChainUpTo(_, _, _)
ChainUpTo(heap, e, n) ==
  IF e = NULL \/ n = 0 THEN <<>>
  ELSE <<e>> \o ChainUpTo(heap, heap[e].next, n - 1)

\* the list with head e (a list has no more elements than the heap)
Chain(heap, e) == ChainUpTo(heap, e, MaxElems)

NoDep == [type |-> "ZERO", unit |-> 0, addr |-> 0]

Idle ==
  [pc |-> "idle", t |-> NULL, i |-> 0, e |-> NULL, prev |-> NULL, rs |-> NULL,
   dep |-> NoDep, atask |-> NULL, origin |-> 0, phase |-> 0, ret |-> "idle"]

NoTask ==
  [state |-> "NONE", phase |-> 0, unresolved_deps |-> 0, successor |-> <<>>,
   remote_successor |-> NULL, mutex |-> NULL, deps |-> <<>>]

NoReq ==
  [seen |-> FALSE, type |-> "ZERO", addr |-> 0, phase |-> 0, origin |-> 0,
   arrived |-> 0]

\* no locality call has been made
NoCall ==
  [op |-> "none", tag |-> <<>>, ret |-> "OK", dom |-> <<>>, oob |-> FALSE,
   loc_null |-> FALSE,
   probe |-> [numa_id |-> -1, num_cores |-> -1, min_threads |-> -1,
              max_threads |-> -1],
   hwinfo |-> [numa_id |-> -1, num_cores |-> -1, min_threads |-> -1,
               max_threads |-> -1]]

\* hash_gptr has not been called
NoHash == [op |-> "none", offset |-> {}, ret |-> 0]

\* no sort is in progress
NoMerge ==
  [pc |-> "none", nunits |-> 0, keys |-> {}, d |-> 0, m |-> 0, nchunks |-> 0,
   tasks |-> <<>>, ran |-> {}, inserted |-> {}]

\* the state of the dependency module after dart_tasking_datadeps_init
DatadepsInit ==
  /\ elem = [e \in Elems |-> ZeroElem]
  /\ nalloc = 0
  /\ local_deps = <<>>
  /\ freelist_head = NULL
  /\ unhandled_remote_deps = NULL
  /\ local_deps_mutex = NULL
  /\ task = [t \in Tasks |-> NoTask]
  /\ queue = [k \in Threads |-> <<>>]
  /\ th = [k \in Threads |-> Idle]
  /\ msgs = EmptyBag
  /\ direct_pending = [t \in Tasks |-> 0]
  /\ last_ret = "OK"
  /\ cur_phase = 0
  /\ ended_phase = -1
  /\ reqs = [r \in RTasks |-> NoReq]
  /\ direct_seen = {}

\* the dependency module on its own: the locality module is not in use
Init ==
  /\ DatadepsInit
  /\ unit_locality = <<>>
  /\ hwinfo = [num_numa |-> 1, num_cores |-> 1]
  /\ domain_root = <<>>
  /\ loc_call = NoCall
  /\ hash_call = NoHash
  /\ merge = NoMerge

\* -------------------------------------------------------------- helpers

Goto(s, k, fields) == [s EXCEPT !.th[k] = fields @@ @]

Return(s, k, val) == [s EXCEPT !.th[k] = Idle, !.last_ret = val]

Send(bag, m) == bag (+) SetToBag({m})

Msg(kind, unit, ltask, rtask, type, addr) ==
  [kind |-> kind, unit |-> unit, ltask |-> ltask, rtask |-> rtask,
   type |-> type, addr |-> addr]

\* dephash_recycle_elem: memset to zero, then push onto the free list under
\* local_deps_mutex (one step, taken when the mutex is free)
dephash_recycle_elem(s, e) ==
  [s EXCEPT !.elem[e] = [ZeroElem EXCEPT !.next = s.freelist_head],
            !.freelist_head = e]

\* the dependency lists a new task may declare (at most two dependencies);
\* unit 1 owns the one remote address.  No list holds two local
\* dependencies of one slot, so the walk of handle_task never meets an
\* entry of the task being registered.
RemoteDep == [type |-> "IN", unit |-> 1, addr |-> AddrB]

LocalDep(type, addr) == [type |-> type, unit |-> myid, addr |-> addr]

DepLists ==
  { <<LocalDep("IN", AddrA)>>, <<LocalDep("OUT", AddrA)>>,
    <<LocalDep("INOUT", AddrA2)>>, <<RemoteDep, LocalDep("OUT", AddrA)>> }

\* the dependency lists of the tasks of SpecSpawn: one or two local writes,
\* on addresses of different slots
DepListsSpawn ==
  { <<LocalDep("OUT", AddrA)>>,
    <<LocalDep("OUT", AddrA), LocalDep("OUT", AddrB)>> }

\* ------------------------------------- dart_tasking_datadeps_handle_task

\* every dependency taken for a local one
IsRemoteDep_Never(dep) == FALSE

\* the dependency's global address belongs to another unit
IsRemoteDep(dep) == dep.unit # myid

\* the loop head: next dependency, forwarded if another unit owns it
HandleTaskDep(s, k) ==
  LET t == s.th[k].t
      i == s.th[k].i
      deps == s.task[t].deps
  IN IF i > Len(deps)
     THEN [Goto(s, k, [pc |-> "tc_enqueue"]) EXCEPT !.last_ret = "OK"]
     ELSE IF IsRemoteDep(deps[i])
     THEN [Goto(s, k, [i |-> i + 1]) EXCEPT
             !.msgs = Send(@, Msg("datadep", deps[i].unit, t, NULL,
                                  deps[i].type, deps[i].addr))]
     ELSE Goto(s, k, [pc |-> "ht_scan", dep |-> deps[i],
                      e |-> SlotHead(s, hash_gptr(deps[i].addr))])

\* an edge to the task of every unfinished same-address entry
NeedsEdge_AnyEntry(s, dep, el) == s.task[el.task].state # "FINISHED"

\* the condition under which the new task becomes a successor of the
\* task of a same-address entry el
NeedsEdge(s, dep, el) ==
  /\ s.task[el.task].state # "FINISHED"
  /\ (IS_OUT_DEP(dep.type) \/ (dep.type = "IN" /\ IS_OUT_DEP(el.type)))

\* the walk ends at the first same-address OUT|INOUT entry
ScanStops(dep, el) == el.addr = dep.addr /\ IS_OUT_DEP(el.type)

\* t becomes a successor of pred: its counter of unresolved dependencies
\* is incremented and it is put in front of pred's successor list
AddSuccessor(s, t, pred) ==
  [s EXCEPT !.task = [u \in Tasks |->
     [s.task[u] EXCEPT !.unresolved_deps = IF u = t THEN @ + 1 ELSE @,
                       !.successor = IF u = pred THEN <<t>> \o @ ELSE @]]]

\* DART_ASSERT_MSG has failed: the process is aborted, no thread takes
\* another step
AssertFailed(s, k) ==
  [s EXCEPT !.th = [j \in Threads |-> [s.th[j] EXCEPT !.pc = "abort"]],
            !.last_ret = "ABORT"]

\* the condition the assertion at the head of the walk's body rules out:
\* the entry belongs to the task being registered
TaskAlreadyPresent(t, el) == el.task = t

\* one iteration of the walk over the slot chain (no lock on the chain;
\* the entry's task is inspected under that task's mutex)
HandleTaskScan(s, k) ==
  LET t == s.th[k].t
      dep == s.th[k].dep
      e == s.th[k].e
      el == s.elem[e]
      after == IF el.addr = dep.addr /\ NeedsEdge(s, dep, el)
               THEN AddSuccessor(s, t, el.task)
               ELSE s
  IN IF e = NULL
     THEN Goto(s, k, [pc |-> "alloc", atask |-> t, ret |-> "al_push"])
     ELSE IF TaskAlreadyPresent(t, el)
     THEN AssertFailed(s, k)
     ELSE IF ScanStops(dep, el)
     THEN Goto(after, k, [pc |-> "alloc", atask |-> t, ret |-> "al_push",
                          e |-> NULL])
     ELSE Goto(after, k, [e |-> el.next])

\* --------------------------------------------------- dephash_allocate_elem

\* the element with the task and dependency of the call stored in it
Filled(el, c) ==
  [el EXCEPT !.task = c.atask, !.type = c.dep.type,
             !.unit = c.dep.unit, !.addr = c.dep.addr]

Calloc(s, k) ==
  Goto([s EXCEPT !.nalloc = @ + 1,
                 !.elem[s.nalloc + 1] = Filled(ZeroElem, s.th[k])],
       k, [pc |-> s.th[k].ret, rs |-> s.nalloc + 1])

\* the unlocked look at the free list; calloc when it is empty
Allocate(s, k) ==
  IF s.freelist_head # NULL
  THEN Goto(s, k, [pc |-> "alloc_lock"])
  ELSE Calloc(s, k)

\* the pop under local_deps_mutex, with the second look at the list
AllocateLocked(s, k) ==
  LET e == s.freelist_head
  IN IF e # NULL
     THEN Goto([s EXCEPT !.freelist_head = s.elem[e].next,
                         !.elem[e] = Filled([s.elem[e] EXCEPT !.next = NULL],
                                            s.th[k])],
               k, [pc |-> s.th[k].ret, rs |-> e])
     ELSE Calloc(s, k)

\* ------------------------------------------------------- dephash_add_local

dephash_add_local(s, k) ==
  LET rs == s.th[k].rs
      slot == hash_gptr(s.th[k].dep.addr)
  IN Goto([s EXCEPT !.elem[rs].phase = s.task[s.th[k].t].phase,
                    !.elem[rs].next = SlotHead(s, slot),
                    !.local_deps = (slot :> rs) @@ @],
          k, [pc |-> "sw_check", rs |-> NULL])

\* ---------------------------------------------- check_unresolved_remote_deps

\* the unlocked test that decides whether the sweep runs at all
SweepCheck(s, k) ==
  IF IS_OUT_DEP(s.th[k].dep.type) /\ s.unhandled_remote_deps # NULL
  THEN Goto(s, k, [pc |-> "sw_lock"])
  ELSE Goto(s, k, [pc |-> "ht_dep", i |-> s.th[k].i + 1, dep |-> NoDep])

SweepLock(s, k) ==
  Goto([s EXCEPT !.local_deps_mutex = k],
       k, [pc |-> "sw_walk", e |-> s.unhandled_remote_deps, prev |-> NULL])

\* what the loop leaves in prev after looking at element e
SweepPrev(prev, e, matched) == IF matched THEN prev ELSE e

\* only requests of earlier phases are taken over
SweepClaims_OnlyEarlier(s, t, el) == el.phase < s.task[t].phase

\* the request el is taken over by the task being registered
SweepClaims(s, t, el) == el.phase = s.task[t].phase

\* the comparison turned round: the requests of later phases
SweepEarlier_Later(s, t, el) == el.phase > s.task[t].phase

\* the request el stems from an earlier phase than the task
SweepEarlier(s, t, el) == el.phase < s.task[t].phase

\* one iteration of the loop over unhandled_remote_deps, under
\* local_deps_mutex; the unlock when the list is exhausted
SweepWalk(s, k) ==
  LET t == s.th[k].t
      dep == s.th[k].dep
      e == s.th[k].e
      prev == s.th[k].prev
      el == s.elem[e]
      matched == el.addr = dep.addr
      moved ==
        \* move the request from the list into the task
        [s EXCEPT
           !.unhandled_remote_deps = IF prev = NULL THEN el.next ELSE @,
           !.elem = [x \in Elems |->
                       IF x = e
                       THEN [s.elem[x] EXCEPT
                               !.next = s.task[t].remote_successor]
                       ELSE IF x = prev
                       THEN [s.elem[x] EXCEPT !.next = el.next]
                       ELSE s.elem[x]],
           !.task[t].remote_successor = e]
      direct ==
        \* direct dependency on the remote task
        [s EXCEPT
           !.msgs = Send(@, Msg("direct", el.unit, t, el.task, "DIRECT", 0)),
           !.task[t].unresolved_deps = @ + 1,
           !.direct_pending[t] = @ + 1]
  IN IF e = NULL
     THEN Goto([s EXCEPT !.local_deps_mutex = NULL],
               k, [pc |-> "ht_dep", i |-> s.th[k].i + 1, dep |-> NoDep,
                   prev |-> NULL])
     ELSE Goto(IF matched /\ SweepClaims(s, t, el) THEN moved
               ELSE IF matched /\ SweepEarlier(s, t, el) THEN direct
               ELSE s,
               k, [e |-> el.next, prev |-> SweepPrev(prev, e, matched)])

\* ------------------------------ dart_tasking_datadeps_release_unhandled_remote

\* the release of one element, or the final clearing of the list head
ReleaseUnhandledSend(s, k) ==
  LET e == s.th[k].e
      el == s.elem[e]
  IN IF e = NULL
     THEN Return([s EXCEPT !.unhandled_remote_deps = NULL], k, "OK")
     ELSE Goto([s EXCEPT !.msgs = Send(@, Msg("release", el.unit, NULL, el.task,
                                              el.type, el.addr))],
               k, [pc |-> "ru_recycle", rs |-> el.next])

ReleaseUnhandledRecycle(s, k) ==
  Goto(dephash_recycle_elem(s, s.th[k].e),
       k, [pc |-> "ru_send", e |-> s.th[k].rs, rs |-> NULL])

\* ------------------------------ dart_tasking_datadeps_handle_remote_task

\* the newest entry of the slot, whatever its address and type
FindWriter_Head(s, e, addr) == e

\* the first element of the chain that is an OUT|INOUT entry on addr
RECURSIVE FindWriter(_, _, _)
FindWriter(s, e, addr) ==
  IF e = NULL THEN NULL
  ELSE IF s.elem[e].addr = addr /\ IS_OUT_DEP(s.elem[e].type) THEN e
  ELSE FindWriter(s, s.elem[e].next, addr)

\* OUT requests let through as well
RemoteTypeOk_AlsoOut(type) == type \in {"IN", "OUT"}

\* the test on the dependency type at the head of the handler
RemoteTypeOk(type) == type = "IN"

\* entry of the handler: the type check and the walk over the slot chain
HandleRemoteEnter(s, k) ==
  LET addr == s.th[k].dep.addr
      w == FindWriter(s, SlotHead(s, hash_gptr(addr)), addr)
  IN IF ~RemoteTypeOk(s.th[k].dep.type)
     THEN Return(s, k, "ERR_INVAL")
     ELSE IF w # NULL
     THEN Goto(s, k, [pc |-> "hr_lock", e |-> w, t |-> s.elem[w].task])
     ELSE Goto(s, k, [pc |-> "alloc", ret |-> "hr_park"])

\* the writer's task mutex is taken; a finished writer is answered at once
HandleRemoteLock(s, k) ==
  LET c == s.th[k]
  IN IF s.task[c.t].state # "FINISHED"
     THEN Goto([s EXCEPT !.task[c.t].mutex = k],
               k, [pc |-> "alloc", ret |-> "hr_push"])
     ELSE Return([s EXCEPT !.msgs = Send(@, Msg("release", c.origin, NULL,
                                                c.atask, c.dep.type,
                                                c.dep.addr))],
                 k, "OK")

\* the new element goes onto the writer's remote successors
HandleRemotePush(s, k) ==
  LET c == s.th[k]
  IN Return([s EXCEPT !.elem[c.rs].unit = c.origin,
                      !.elem[c.rs].phase = c.phase,
                      !.elem[c.rs].next = s.task[c.t].remote_successor,
                      !.task[c.t].remote_successor = c.rs,
                      !.task[c.t].mutex = NULL],
            k, "OK")

\* no writer found: the request is cached in unhandled_remote_deps
HandleRemotePark(s, k) ==
  LET c == s.th[k]
  IN Return([s EXCEPT !.elem[c.rs].unit = c.origin,
                      !.elem[c.rs].phase = c.phase,
                      !.elem[c.rs].next = s.unhandled_remote_deps,
                      !.unhandled_remote_deps = c.rs],
            k, "OK")

\* the new element replaces the list instead of being put in front of it
HandleRemoteDirectPush_Overwrite(s, k) ==
  LET c == s.th[k]
  IN Return([s EXCEPT !.task[c.t].remote_successor = c.rs], k, "OK")

\* ---------------------------- dart_tasking_datadeps_handle_remote_direct

HandleRemoteDirectPush(s, k) ==
  LET c == s.th[k]
  IN Return([s EXCEPT !.elem[c.rs].next = s.task[c.t].remote_successor,
                      !.task[c.t].remote_successor = c.rs],
            k, "OK")

\* ------------------------------- dart_tasking_datadeps_release_local_task

\* the loop of send_direct_dependencies from element e on, for the remote
\* successor rd
RECURSIVE SendDirectWalk(_, _, _)
SendDirectWalk(s, e, rd) ==
  IF e = NULL THEN s
  ELSE LET el == s.elem[e]
       IN IF s.task[el.task].unresolved_deps = 0
          THEN s
          ELSE IF el.addr = rd.addr /\ IS_OUT_DEP(el.type)
          THEN SendDirectWalk(
                 [s EXCEPT
                    !.task[el.task].unresolved_deps = @ + 1,
                    !.msgs = Send(@, Msg("direct", rd.unit, el.task, rd.task,
                                         "DIRECT", 0)),
                    !.direct_pending[el.task] = @ + 1],
                 el.next, rd)
          ELSE SendDirectWalk(s, el.next, rd)

send_direct_dependencies(s, rd) ==
  IF rd.type = "DIRECT" THEN s
  ELSE SendDirectWalk(s, SlotHead(s, hash_gptr(rd.addr)), rd)

ReleaseStart(s, k) ==
  Goto(s, k, [pc |-> "rr_send", rs |-> s.task[s.th[k].t].remote_successor])

\* release_remote_dependencies, one remote successor: the direct requests,
\* then the release; after the last one the list head is cleared
ReleaseRemoteSend(s, k) ==
  LET rs == s.th[k].rs
      rd == s.elem[rs]
      sd == send_direct_dependencies(s, rd)
  IN IF rs = NULL
     THEN Goto([s EXCEPT !.task[s.th[k].t].remote_successor = NULL],
               k, [pc |-> "rl_local"])
     ELSE Goto([sd EXCEPT !.msgs = Send(@, Msg("release", rd.unit, NULL, rd.task,
                                               rd.type, rd.addr))],
               k, [pc |-> "rr_recycle", e |-> rs, rs |-> rd.next])

ReleaseRemoteRecycle(s, k) ==
  Goto(dephash_recycle_elem(s, s.th[k].e), k, [pc |-> "rr_send", e |-> NULL])

\* the successor is enqueued one release too early
Runnable_OneLeft(unresolved_deps) == unresolved_deps <= 1

\* the successor reaches the ready queue when the decrement gives zero
Runnable(unresolved_deps) == unresolved_deps = 0

\* the loop over the local successors tl[n..], k the releasing thread
RECURSIVE ReleaseSuccessors(_, _, _, _)
ReleaseSuccessors(s, k, tl, n) ==
  IF n > Len(tl) THEN s
  ELSE LET left == s.task[tl[n]].unresolved_deps - 1
       IN ReleaseSuccessors(
            [s EXCEPT !.task[tl[n]].unresolved_deps = left,
                      !.queue[k] = IF Runnable(left) THEN Append(@, tl[n])
                                   ELSE @],
            k, tl, n + 1)

ReleaseLocal(s, k) ==
  Return(ReleaseSuccessors(s, k, s.task[s.th[k].t].successor, 1), k, "OK")

\* -------------------------------------------------- the scheduler's part

\* after handle_task: a task without unresolved dependencies is enqueued
TaskEnqueue(s, k) ==
  LET t == s.th[k].t
  IN [(IF s.task[t].unresolved_deps = 0
       THEN [s EXCEPT !.queue[k] = Append(@, t)]
       ELSE s) EXCEPT !.th[k] = Idle]

\* the task function has returned: FINISHED is set under the task mutex,
\* then dart_tasking_datadeps_release_local_task is entered
TaskFinished(s, k) ==
  Goto([s EXCEPT !.task[s.th[k].t].state = "FINISHED"], k, [pc |-> "rl_start"])

\* ------------------------------------------------------ steps and calls

\* the step thread k takes next
Step(s, k) ==
  CASE s.th[k].pc = "ht_dep" -> HandleTaskDep(s, k)
    [] s.th[k].pc = "ht_scan" -> HandleTaskScan(s, k)
    [] s.th[k].pc = "alloc" -> Allocate(s, k)
    [] s.th[k].pc = "alloc_lock" -> AllocateLocked(s, k)
    [] s.th[k].pc = "al_push" -> dephash_add_local(s, k)
    [] s.th[k].pc = "sw_check" -> SweepCheck(s, k)
    [] s.th[k].pc = "sw_lock" -> SweepLock(s, k)
    [] s.th[k].pc = "sw_walk" -> SweepWalk(s, k)
    [] s.th[k].pc = "tc_enqueue" -> TaskEnqueue(s, k)
    [] s.th[k].pc = "ru_send" -> ReleaseUnhandledSend(s, k)
    [] s.th[k].pc = "ru_recycle" -> ReleaseUnhandledRecycle(s, k)
    [] s.th[k].pc = "hr_enter" -> HandleRemoteEnter(s, k)
    [] s.th[k].pc = "hr_lock" -> HandleRemoteLock(s, k)
    [] s.th[k].pc = "hr_push" -> HandleRemotePush(s, k)
    [] s.th[k].pc = "hr_park" -> HandleRemotePark(s, k)
    [] s.th[k].pc = "hd_push" -> HandleRemoteDirectPush(s, k)
    [] s.th[k].pc = "rl_start" -> ReleaseStart(s, k)
    [] s.th[k].pc = "rr_send" -> ReleaseRemoteSend(s, k)
    [] s.th[k].pc = "rr_recycle" -> ReleaseRemoteRecycle(s, k)
    [] s.th[k].pc = "rl_local" -> ReleaseLocal(s, k)

\* the mutex the next step of thread k acquires is held
Blocked(s, k) ==
  LET c == s.th[k]
  IN \/ /\ c.pc \in {"alloc_lock", "al_push", "sw_lock", "hr_park",
                     "ru_recycle", "rr_recycle"}
        /\ s.local_deps_mutex # NULL
     \/ /\ c.pc \in {"hr_lock", "hd_push", "run"}
        /\ s.task[c.t].mutex # NULL
     \/ /\ c.pc = "ht_scan" /\ c.e # NULL
        /\ s.elem[c.e].addr = c.dep.addr
        /\ s.task[s.elem[c.e].task].mutex # NULL
     \/ /\ c.pc = "sw_walk" /\ c.e # NULL
        /\ s.elem[c.e].addr = c.dep.addr
        /\ SweepClaims(s, c.t, s.elem[c.e])
        /\ s.task[c.t].mutex # NULL

\* the steps that run with local_deps_mutex held: the pop and the push of
\* the free list, the push onto a slot chain, the sweep, the parking of a
\* request
LockedSteps ==
  {"alloc_lock", "al_push", "sw_lock", "sw_walk", "hr_park", "ru_recycle",
   "rr_recycle"}

\* the next step of thread k reads or writes a slot head or chain, the free
\* list or the list of unhandled remote dependencies
TouchesShared(s, k) ==
  LET c == s.th[k]
  IN \/ c.pc \in LockedSteps
     \* handle_task: the slot head, then the entries of the chain
     \/ /\ c.pc = "ht_dep"
        /\ c.i <= Len(s.task[c.t].deps)
        /\ ~IsRemoteDep(s.task[c.t].deps[c.i])
     \/ c.pc = "ht_scan" /\ c.e # NULL
     \* dephash_allocate_elem: the first look at the free list
     \/ c.pc = "alloc"
     \* check_unresolved_remote_deps: the test of the list head
     \/ c.pc = "sw_check" /\ IS_OUT_DEP(c.dep.type)
     \* release_unhandled_remote: the list walk and the clearing of the head
     \/ c.pc = "ru_send"
     \* handle_remote_task: the walk over the slot chain
     \/ c.pc = "hr_enter" /\ RemoteTypeOk(c.dep.type)
     \* send_direct_dependencies: the walk over the slot chain
     \/ c.pc = "rr_send" /\ c.rs # NULL /\ s.elem[c.rs].type # "DIRECT"

\* the next step of thread k locks local_deps_mutex
AcquiresM(s, k) ==
  s.th[k].pc \in {"alloc_lock", "al_push", "sw_lock", "hr_park", "ru_recycle",
                  "rr_recycle"}

\* the tasks whose mutex the next step of thread k locks
AcquiresTask(s, k) ==
  LET c == s.th[k]
  IN IF c.pc \in {"hr_lock", "hd_push", "run"} THEN {c.t}
     ELSE IF c.pc = "ht_scan" /\ c.e # NULL /\ s.elem[c.e].addr = c.dep.addr
     THEN {s.elem[c.e].task}
     ELSE IF /\ c.pc = "sw_walk" /\ c.e # NULL
             /\ s.elem[c.e].addr = c.dep.addr
             /\ SweepClaims(s, c.t, s.elem[c.e])
     THEN {c.t}
     ELSE {}

\* the tasks whose mutex thread k holds
HeldTaskMutexes(s, k) == {t \in Tasks : s.task[t].mutex = k}

\* the call of thread k run to its return (or to the mutex it waits for)
RECURSIVE Finish(_, _)
Finish(s, k) ==
  IF s.th[k].pc \in {"idle", "run", "abort", "joined", "fini_lock"}
       \/ Blocked(s, k)
  THEN s
  ELSE Finish(Step(s, k), k)

\* the tasks created and the remote requests served so far
Load ==
  Cardinality({t \in Tasks : task[t].state # "NONE"})
    + Cardinality({r \in RTasks : reqs[r].seen}) + Cardinality(direct_seen)

\* a call entered in state s: as one action, or as its first step
Call(s, k, atomic) == Assign(IF atomic THEN Finish(s, k) ELSE s)

\* dart_task_create: a fresh task object in the current phase, handed to
\* dart_tasking_datadeps_handle_task
TaskCreate(k, t, deps, atomic, limit) ==
  /\ th[k].pc = "idle"
  /\ task[t].state = "NONE"
  /\ Load < limit
  /\ \A u \in Tasks : u < t => task[u].state # "NONE"
  /\ Call(Goto([S EXCEPT !.task[t] = [NoTask EXCEPT !.state = "CREATED",
                                                    !.phase = cur_phase,
                                                    !.deps = deps]],
               k, [pc |-> "ht_dep", t |-> t, i |-> 1]),
          k, atomic)
  /\ UNCHANGED <<cur_phase, ended_phase, reqs, direct_seen, locality_vars,
                 hash_vars, merge_vars>>

\* a dependency request of a remote task arrives
HandleRemoteTask(k, r, type, addr, phase, origin, atomic, limit) ==
  /\ th[k].pc = "idle"
  /\ ~reqs[r].seen
  /\ Load < limit
  /\ \A q \in RTasks : q < r => reqs[q].seen
  /\ reqs' = IF type = "IN"
             THEN [reqs EXCEPT ![r] = [seen |-> TRUE, type |-> type,
                                       addr |-> addr, phase |-> phase,
                                       origin |-> origin,
                                       arrived |-> cur_phase]]
             ELSE reqs
  /\ Call(Goto(S, k, [pc |-> "hr_enter", atask |-> r, origin |-> origin,
                      phase |-> phase,
                      dep |-> [type |-> type, unit |-> myid, addr |-> addr]]),
          k, atomic)
  /\ UNCHANGED <<cur_phase, ended_phase, direct_seen, locality_vars,
                 hash_vars, merge_vars>>

\* a direct request names a local task whose handle the other unit knows
\* from a remote dependency that task has sent
HandleRemoteDirect(k, t, r, origin, atomic, limit) ==
  /\ th[k].pc = "idle"
  /\ r \notin direct_seen
  /\ Load < limit
  /\ \E m \in BagToSet(msgs) : m.kind = "datadep" /\ m.ltask = t
  /\ direct_seen' = direct_seen \cup {r}
  /\ Call(Goto(S, k, [pc |-> "alloc", ret |-> "hd_push", t |-> t, atask |-> r,
                      origin |-> origin,
                      dep |-> [type |-> "DIRECT", unit |-> origin, addr |-> 0]]),
          k, atomic)
  /\ UNCHANGED <<cur_phase, ended_phase, reqs, locality_vars, hash_vars, merge_vars>>

\* the flush is called by one thread at a time (the one that ends the phase)
ReleaseUnhandledRemote(k, atomic) ==
  /\ th[k].pc = "idle"
  /\ \A j \in Threads : th[j].pc \notin {"ru_send", "ru_recycle"}
  /\ Call(Goto(S, k, [pc |-> "ru_send", e |-> unhandled_remote_deps]), k, atomic)
  /\ UNCHANGED <<cur_phase, ended_phase, reqs, direct_seen, locality_vars,
                 hash_vars, merge_vars>>

\* a worker pops the head of its ready queue
TaskRun(k) ==
  /\ th[k].pc = "idle"
  /\ queue[k] # <<>>
  /\ Assign(Goto([S EXCEPT !.queue[k] = Tail(@),
                           !.task[queue[k][1]].state = "RUNNING"],
                 k, [pc |-> "run", t |-> queue[k][1]]))
  /\ UNCHANGED <<cur_phase, ended_phase, reqs, direct_seen, locality_vars,
                 hash_vars, merge_vars>>

TaskFinish(k, atomic) ==
  /\ th[k].pc = "run"
  /\ ~Blocked(S, k)
  /\ Call(TaskFinished(S, k), k, atomic)
  /\ UNCHANGED <<cur_phase, ended_phase, reqs, direct_seen, locality_vars,
                 hash_vars, merge_vars>>

\* the answer to a direct request: the remote task has finished and its
\* unit releases the local task waiting for it
RecvRelease(k, t) ==
  /\ th[k].pc = "idle"
  /\ direct_pending[t] > 0
  /\ Assign([S EXCEPT
       !.direct_pending[t] = @ - 1,
       !.task[t].unresolved_deps = @ - 1,
       !.queue[k] = IF Runnable(task[t].unresolved_deps - 1)
                    THEN Append(@, t) ELSE @])
  /\ UNCHANGED <<cur_phase, ended_phase, reqs, direct_seen, locality_vars,
                 hash_vars, merge_vars>>

\* dart_tasking_datadeps_end_phase does nothing; its caller then moves to
\* the next phase
dart_tasking_datadeps_end_phase(s, phase) == [s EXCEPT !.last_ret = "OK"]

EndPhase(k) ==
  /\ th[k].pc = "idle"
  /\ cur_phase < MaxPhase
  /\ Assign(dart_tasking_datadeps_end_phase(S, cur_phase))
  /\ ended_phase' = cur_phase
  /\ cur_phase' = cur_phase + 1
  /\ UNCHANGED <<reqs, direct_seen, locality_vars, hash_vars, merge_vars>>

\* -------------------------------------------- dart_tasking_datadeps_reset

\* the elements of all slot chains, slot 0 first, each chain from its head
RECURSIVE AllChains(_, _)
AllChains(s, slots) ==
  IF slots = {} THEN <<>>
  ELSE LET m == CHOOSE x \in slots : \A y \in slots : x <= y
       IN Chain(s.elem, s.local_deps[m]) \o AllChains(s, slots \ {m})

\* no element is recycled
RecycleAll_None(s, es, n) == s

\* the state after recycling the elements es[n..] in order
RECURSIVE RecycleAll(_, _, _)
RecycleAll(s, es, n) ==
  IF n > Len(es) THEN s
  ELSE RecycleAll(dephash_recycle_elem(s, es[n]), es, n + 1)

dart_tasking_datadeps_reset(s) ==
  [RecycleAll(s, AllChains(s, DOMAIN s.local_deps), 1) EXCEPT
     !.local_deps = <<>>, !.last_ret = "OK"]

\* reset runs once the task graph has been executed: no call is in
\* progress and every created task has finished
Reset(k) ==
  /\ \A j \in Threads : th[j].pc = "idle"
  /\ \A t \in Tasks : task[t].state \in {"NONE", "FINISHED"}
  /\ Assign(dart_tasking_datadeps_reset(S))
  /\ UNCHANGED <<cur_phase, ended_phase, reqs, direct_seen, locality_vars,
                 hash_vars, merge_vars>>

\* --------------------------------------------- dart_tasking_datadeps_fini

\* local_deps_mutex after dart_mutex_destroy
MutexDestroyed == -1

\* the calls of dart_mutex_lock(&local_deps_mutex) that fini makes after it
\* has destroyed the mutex: one in dephash_recycle_elem for every element
\* the reset finds in the table
FiniLocksAfterDestroy(s) == Len(AllChains(s, DOMAIN s.local_deps))

\* the tasking runtime is shut down: the threads are joined, no call follows
Joined(s) == [s EXCEPT !.th = [j \in Threads |-> [Idle EXCEPT !.pc = "joined"]]]

\* fini with every lock of the mutex going through: the mutex is destroyed,
\* the reset recycles the table, the free list is freed
dart_tasking_datadeps_fini(s) ==
  LET r == dart_tasking_datadeps_reset(
             [s EXCEPT !.local_deps_mutex = MutexDestroyed])
      freed == {Chain(r.elem, r.freelist_head)[i] :
                  i \in DOMAIN Chain(r.elem, r.freelist_head)}
  IN [r EXCEPT !.elem = [e \in Elems |-> IF e \in freed THEN ZeroElem ELSE @[e]],
               !.freelist_head = NULL,
               !.last_ret = "OK"]

\* fini stuck in the first lock of the destroyed mutex
FiniHangs(s, k) ==
  [Joined(s) EXCEPT !.local_deps_mutex = MutexDestroyed,
                    !.th[k].pc = "fini_lock",
                    !.last_ret = "HANG"]

\* fini runs at shutdown: no call is in progress and every created task has
\* finished.  Locking a destroyed mutex is undefined: the lock goes through
\* or the caller never gets it.
Fini(k) ==
  /\ \A j \in Threads : th[j].pc = "idle"
  /\ \A t \in Tasks : task[t].state \in {"NONE", "FINISHED"}
  /\ local_deps_mutex # MutexDestroyed
  /\ \/ Assign(Joined(dart_tasking_datadeps_fini(S)))
     \/ /\ FiniLocksAfterDestroy(S) > 0
        /\ Assign(FiniHangs(S, k))
  /\ UNCHANGED <<cur_phase, ended_phase, reqs, direct_seen, locality_vars,
                 hash_vars, merge_vars>>

\* a thread inside a call takes its next step
Continue(k) ==
  /\ th[k].pc \notin {"idle", "run", "abort", "joined", "fini_lock"}
  /\ ~Blocked(S, k)
  /\ Assign(Step(S, k))
  /\ UNCHANGED <<cur_phase, ended_phase, reqs, direct_seen, locality_vars,
                 hash_vars, merge_vars>>

\* ------------------------------------------------------- specifications

RemoteTypes == {"IN", "OUT", "INOUT", "DIRECT"}

RemoteAddrs == {AddrA}

Next ==
  \E k \in Threads :
    \/ \E t \in Tasks, deps \in DepLists : TaskCreate(k, t, deps, TRUE, MaxLoad)
    \/ \E r \in RTasks, type \in RemoteTypes, addr \in RemoteAddrs,
          phase \in Phases, origin \in Origins :
         HandleRemoteTask(k, r, type, addr, phase, origin, TRUE, MaxLoad)
    \/ \E t \in Tasks, r \in RTasks, origin \in Origins :
         HandleRemoteDirect(k, t, r, origin, TRUE, MaxLoad)
    \/ ReleaseUnhandledRemote(k, TRUE)
    \/ TaskRun(k)
    \/ TaskFinish(k, TRUE)
    \/ \E t \in Tasks : RecvRelease(k, t)
    \/ EndPhase(k)
    \/ Reset(k)

NextConc ==
  \E k \in Threads :
    \/ \E t \in Tasks, deps \in DepLists : TaskCreate(k, t, deps, FALSE, ConcLoad)
    \/ \E r \in RTasks, type \in RemoteTypes, addr \in RemoteAddrs,
          phase \in Phases, origin \in Origins :
         HandleRemoteTask(k, r, type, addr, phase, origin, FALSE, ConcLoad)
    \/ \E t \in Tasks, r \in RTasks, origin \in Origins :
         HandleRemoteDirect(k, t, r, origin, FALSE, ConcLoad)
    \/ ReleaseUnhandledRemote(k, FALSE)
    \/ TaskRun(k)
    \/ TaskFinish(k, FALSE)
    \/ \E t \in Tasks : RecvRelease(k, t)
    \/ EndPhase(k)
    \/ Reset(k)
    \/ Continue(k)

\* worker threads that create, run and finish tasks, step by step
NextSpawn ==
  \E k \in Threads :
    \/ \E t \in Tasks, deps \in DepListsSpawn :
         TaskCreate(k, t, deps, FALSE, SpawnLoad)
    \/ TaskRun(k)
    \/ TaskFinish(k, FALSE)
    \/ Continue(k)

\* threads that register writers of one address, serve IN requests on it
\* and flush the unhandled list, step by step
NextLock ==
  \E k \in Threads :
    \/ \E t \in Tasks : TaskCreate(k, t, <<LocalDep("OUT", AddrA)>>, FALSE, LockLoad)
    \/ \E r \in RTasks, phase \in Phases, origin \in Origins :
         HandleRemoteTask(k, r, "IN", AddrA, phase, origin, FALSE, LockLoad)
    \/ ReleaseUnhandledRemote(k, FALSE)
    \/ Continue(k)

\* tasks that write one address or read and write another address of the
\* same slot, IN requests on the first address, and the release of the
\* tasks (every call runs to its return)
NextChain ==
  \E k \in Threads :
    \/ \E t \in Tasks,
          deps \in {<<LocalDep("OUT", AddrA)>>, <<LocalDep("INOUT", AddrA2)>>} :
         TaskCreate(k, t, deps, TRUE, ChainLoad)
    \/ \E r \in RTasks, origin \in Origins :
         HandleRemoteTask(k, r, "IN", AddrA, 0, origin, TRUE, ChainLoad)
    \/ TaskRun(k)
    \/ TaskFinish(k, TRUE)
    \/ \E t \in Tasks : RecvRelease(k, t)

Spec == Init /\ [][Next]_vars

SpecChain == Init /\ [][NextChain]_vars

SpecConc == Init /\ [][NextConc]_vars

SpecSpawn == Init /\ [][NextSpawn]_vars

SpecLock == Init /\ [][NextLock]_vars

\* no assertion has failed: the process is alive
Alive == \A k \in Threads : th[k].pc # "abort"

\* the dependency lists of SpecSlot: one or two local dependencies, on
\* different addresses, of one slot or of two
DepListsSlot ==
  LET Addrs == {AddrA, AddrA2, AddrB}
      Types == {"IN", "OUT"}
  IN {<<LocalDep(ty, a)>> : ty \in Types, a \in Addrs}
       \cup {<<LocalDep(d[1], d[2]), LocalDep(d[3], d[4])>> :
               d \in {x \in Types \X Addrs \X Types \X Addrs : x[2] # x[4]}}

\* every task is registered once, with dependencies on different addresses
\* (every call runs to its return)
NextSlot ==
  \E k \in Threads :
    \/ \E t \in Tasks, deps \in DepListsSlot :
         TaskCreate(k, t, deps, TRUE, SlotLoad)
    \/ TaskRun(k)
    \/ TaskFinish(k, TRUE)

SpecSlot == Init /\ [][NextSlot]_vars

\* tasks are registered, run and released, the table is reset, and the
\* module is shut down (every call runs to its return)
NextFini ==
  \E k \in Threads :
    \/ \E t \in Tasks, deps \in DepLists : TaskCreate(k, t, deps, TRUE, MaxLoad)
    \/ TaskRun(k)
    \/ TaskFinish(k, TRUE)
    \/ Reset(k)
    \/ Fini(k)

SpecFini == Init /\ [][NextFini]_vars

\* the dependencies of the tasks of SpecDead: the first task writes two
\* addresses, the second the address of the IN requests
DeadDeps ==
  <<  <<LocalDep("OUT", AddrA2), LocalDep("OUT", AddrB)>>,
      <<LocalDep("OUT", AddrA)>>  >>

\* a task with two entries, a reset that puts them on the free list, a
\* writer of the address of the IN requests (step by step)
NextDead ==
  \E k \in Threads :
    \/ \E t \in DOMAIN DeadDeps : TaskCreate(k, t, DeadDeps[t], FALSE, DeadLoad)
    \/ \E r \in RTasks, origin \in Origins :
         HandleRemoteTask(k, r, "IN", AddrA, 0, origin, FALSE, DeadLoad)
    \/ TaskRun(k)
    \/ TaskFinish(k, FALSE)
    \/ Reset(k)
    \/ Continue(k)

SpecDead == Init /\ [][NextDead]_vars

\* ------------------------------------------------------- hash_gptr alone

HashOffsets ==
  {BitsOf(n) : n \in 0 .. HashDense}
    \cup {BitsOf(LocalAddrs[i]) : i \in DOMAIN LocalAddrs}
    \cup {{i, j} : i, j \in 0 .. (U64Width - 1)}
    \cup {(0 .. (U64Width - 1)) \ {i, j} : i, j \in 0 .. (U64Width - 1)}

\* the first call of hash_gptr, for a pointer with the given offset
HashGptr(offset) ==
  /\ hash_call.op = "none"
  /\ hash_call' = [op |-> "hash_gptr", offset |-> offset,
                   ret |-> hash_offset(offset)]
  /\ UNCHANGED <<datadeps_vars, locality_vars, merge_vars>>

NextHash == \E offset \in HashOffsets : HashGptr(offset)

SpecHash == Init /\ [][NextHash]_vars

\* ============================================ local merge of a sort (Merge.h)

\* every unit's partition but the caller's, in ascending order
remote_partitions(nunits, whoami) ==
  [i \in 1 .. (nunits - 1) |-> IF i - 1 < whoami THEN i - 1 ELSE i]

\* psort__schedule_copy_tasks: a key [p, p + 1) for the copy of every remote
\* partition and one for the local part
psort__schedule_copy_tasks(partitions, whoami) ==
  {<<partitions[i], partitions[i] + 1>> : i \in DOMAIN partitions}
    \cup {<<whoami, whoami + 1>>}

\* static_cast<size_t>(std::ceil(std::log2(nchunks)))
MergeDepth(nchunks) ==
  CHOOSE d \in 0 .. nchunks : 2^d >= nchunks /\ (d = 0 \/ 2^(d - 1) < nchunks)

MergeStep(d) == 2^d

MergeDist(d) == MergeStep(d) * 2

NumMerges(nchunks) == nchunks \div 2

Min(a, b) == IF a <= b THEN a ELSE b

\* no guard for the lonely merge at the end
MergeLast_NoMin(m, d, nunits) == m * MergeDist(d) + MergeDist(d)

\* the end of the range of merge m at depth d
MergeLast(m, d, nunits) == Min(m * MergeDist(d) + MergeDist(d), nunits)

\* the sort of a team of nunits units begins on unit whoami: the copy tasks
\* are scheduled, psort__merge_local is entered
ScheduleCopyTasks(nunits, whoami) ==
  /\ merge.pc = "none"
  /\ whoami < nunits
  /\ merge' = [NoMerge EXCEPT
                 !.pc = "merge",
                 !.nunits = nunits,
                 !.nchunks = nunits,
                 !.keys = psort__schedule_copy_tasks(
                            remote_partitions(nunits, whoami), whoami)]
  /\ UNCHANGED <<datadeps_vars, locality_vars, hash_vars>>

\* one pass of the inner loop: the merge task for [f, l) with middle mi is
\* submitted, its future is put under the key [f, l)
MergeSubmit ==
  LET f == merge.m * MergeDist(merge.d)
      mi == merge.m * MergeDist(merge.d) + MergeStep(merge.d)
      l == MergeLast(merge.m, merge.d, merge.nunits)
  IN /\ merge.pc = "merge"
     /\ merge.d < MergeDepth(merge.nunits)
     /\ merge.m < NumMerges(merge.nchunks)
     /\ merge' = [merge EXCEPT
                    !.tasks = Append(@, [f |-> f, mi |-> mi, l |-> l,
                                         keys |-> merge.keys]),
                    !.keys = @ \cup {<<f, l>>},
                    !.m = @ + 1]
     /\ UNCHANGED <<datadeps_vars, locality_vars, hash_vars>>

\* the inner loop is left: the merged chunks are counted off, the next
\* depth begins
MergeNextDepth ==
  /\ merge.pc = "merge"
  /\ merge.d < MergeDepth(merge.nunits)
  /\ merge.m >= NumMerges(merge.nchunks)
  /\ merge' = [merge EXCEPT !.nchunks = @ - NumMerges(@), !.d = @ + 1, !.m = 0]
  /\ UNCHANGED <<datadeps_vars, locality_vars, hash_vars>>

\* the outer loop is left: psort__merge_local returns
MergeReturn ==
  /\ merge.pc = "merge"
  /\ merge.d >= MergeDepth(merge.nunits)
  /\ merge' = [merge EXCEPT !.pc = "done"]
  /\ UNCHANGED <<datadeps_vars, locality_vars, hash_vars>>

\* the submitted tasks that put their future under key
Producers(key) ==
  {j \in DOMAIN merge.tasks : <<merge.tasks[j].f, merge.tasks[j].l>> = key}

\* a worker runs task i to its end: chunk_dependencies[dep] finds the key
\* or inserts it with an invalid future; a valid future is waited for, so
\* the task ends after the tasks of its dependencies
MergeRun(i) ==
  /\ i \in DOMAIN merge.tasks
  /\ i \notin merge.ran
  /\ LET t == merge.tasks[i]
         deps == {<<t.f, t.mi>>, <<t.mi, t.l>>}
     IN /\ \A dep \in deps \cap merge.keys : Producers(dep) \subseteq merge.ran
        /\ merge' = [merge EXCEPT !.ran = @ \cup {i},
                                  !.inserted = @ \cup (deps \ merge.keys),
                                  !.keys = @ \cup deps]
  /\ UNCHANGED <<datadeps_vars, locality_vars, hash_vars>>

NextMerge ==
  \/ \E nunits \in 2 .. MaxTeam, whoami \in 0 .. (MaxTeam - 1) :
       ScheduleCopyTasks(nunits, whoami)
  \/ MergeSubmit
  \/ MergeNextDepth
  \/ MergeReturn
  \/ \E i \in 1 .. MaxTeam : MergeRun(i)

SpecMerge == Init /\ [][NextMerge]_vars

\* =================================================== locality (locality.c)

\* ------------------------------------------------ domain tags as strings

\* a string is the sequence of its characters; NUL is what is read at and
\* after its end
NUL == "NUL"

CharAt(str, i) == IF i \in DOMAIN str THEN str[i] ELSE NUL

DigitChars == <<"0", "1", "2", "3", "4", "5", "6", "7", "8", "9">>

IsDigit(c) == \E d \in DOMAIN DigitChars : DigitChars[d] = c

DigitValue(c) == (CHOOSE d \in DOMAIN DigitChars : DigitChars[d] = c) - 1

RECURSIVE Digits(_)
Digits(n) ==
  IF n < 10 THEN <<DigitChars[n + 1]>>
  ELSE Digits(n \div 10) \o <<DigitChars[(n % 10) + 1]>>

\* sprintf(buf, "%d", n)
sprintf_d(n) == IF n < 0 THEN <<"-">> \o Digits(-n) ELSE Digits(n)

\* the value of the digits of str from position i on, after the value acc
\* of the digits before, and the position of the first character that is
\* not a digit
RECURSIVE strtol_digits(_, _, _)
strtol_digits(str, i, acc) ==
  IF IsDigit(CharAt(str, i))
  THEN strtol_digits(str, i + 1, 10 * acc + DigitValue(str[i]))
  ELSE [val |-> acc, end |-> i]

\* strtol(str + i, &end, 10): an optional sign, then digits; without digits
\* the value is 0 and end is where the parse began
strtol(str, i) ==
  LET signed == CharAt(str, i) \in {"-", "+"}
      from == IF signed THEN i + 1 ELSE i
      r == strtol_digits(str, from, 0)
  IN IF r.end = from THEN [val |-> 0, end |-> i]
     ELSE [val |-> IF CharAt(str, i) = "-" THEN -r.val ELSE r.val,
           end |-> r.end]

\* strchr(str, '.'): the position of the first dot, NULL if there is none
strchr_dot(str) ==
  LET dots == {i \in DOMAIN str : str[i] = "."}
  IN IF dots = {} THEN NULL ELSE CHOOSE i \in dots : \A j \in dots : i <= j

\* the tag of the subdomain at rel_idx: the parent's tag unless the parent
\* is the root, then ".<rel_idx>"
SubdomainTag_NoBase(domain, rel_idx) == <<".">> \o sprintf_d(rel_idx)

\* the parent's tag in front of the index at every level
SubdomainTag_AlwaysBase(domain, rel_idx) ==
  domain.domain_tag \o <<".">> \o sprintf_d(rel_idx)

SubdomainTag(domain, rel_idx) ==
  (IF domain.level > 0 THEN domain.domain_tag ELSE <<>>)
    \o <<".">> \o sprintf_d(rel_idx)

\* ---------------------------------------------------------- host topology

\* the elements of a set of numbers in ascending order
RECURSIVE Ascending(_)
Ascending(set) ==
  IF set = {} THEN <<>>
  ELSE LET m == CHOOSE x \in set : \A y \in set : x <= y
       IN <<m>> \o Ascending(set \ {m})

\* the unit where hostname h appears first
FirstUnit(ul, h) ==
  CHOOSE u \in DOMAIN ul : ul[u].host = h /\ \A v \in DOMAIN ul : ul[v].host = h => u <= v

\* the distinct hostnames, ordered by first appearance
host_names(ul) ==
  LET firsts == Ascending({FirstUnit(ul, ul[u].host) : u \in DOMAIN ul})
  IN [i \in DOMAIN firsts |-> ul[firsts[i]].host]

\* every host is a node of its own, with one module
num_nodes(ul) == Len(host_names(ul))

num_modules(ul) == 1

node_units(ul, host) == Ascending({u \in DOMAIN ul : ul[u].host = host})

module_units(ul, host) == Ascending({u \in DOMAIN ul : ul[u].host = host})

\* ------------------------------------------------------ the locality tree

\* a domain is addressed by the child indices on the way from the root
RootPath == <<>>

\* the record dart__base__locality__domain_locality_init leaves
domain_locality_init ==
  [domain_tag |-> <<>>, host |-> "", scope |-> "UNDEFINED", level |-> 0,
   relative_index |-> 0, node_id |-> 0, num_domains |-> 0, num_nodes |-> -1,
   num_units |-> -1, unit_ids |-> <<>>,
   hwinfo |-> [num_modules |-> 0, num_numa |-> 0, num_cores |-> 0]]

\* the root domain as dart__base__locality__init sets it up: the local
\* unit's probe and hostname, all units
RootDomain(ul, hw) ==
  [domain_locality_init EXCEPT
     !.scope = "GLOBAL",
     !.host = ul[myid].host,
     !.domain_tag = <<".">>,
     !.num_units = Cardinality(DOMAIN ul),
     !.unit_ids = Ascending(DOMAIN ul),
     !.num_nodes = num_nodes(ul),
     !.hwinfo = [num_modules |-> num_modules(ul), num_numa |-> hw.num_numa,
                 num_cores |-> hw.num_cores]]

\* first step of create_subdomains: number of subdomains by scope
NumSubdomains(b, domain) ==
  CASE domain.scope = "GLOBAL" -> num_nodes(b.ul)
    [] domain.scope = "NODE" -> domain.hwinfo.num_modules
    [] domain.scope = "MODULE" -> domain.hwinfo.num_numa
    [] domain.scope = "NUMA" -> domain.num_units
    [] OTHER -> 0

SubScope(scope) ==
  CASE scope = "GLOBAL" -> "NODE"
    [] scope = "NODE" -> "MODULE"
    [] scope = "MODULE" -> "NUMA"
    [] scope = "NUMA" -> "CORE"
    [] OTHER -> "UNDEFINED"

\* the host whose units a module domain counts: the entry of host_names at
\* the module's own relative index
ModuleHostname(b, domain) == host_names(b.ul)[domain.relative_index + 1]

\* the host of the module at rel_idx of a node: the entry of host_names at
\* the index of the module within its node
NodeModuleHostname(b, node_domain, rel_idx) == host_names(b.ul)[rel_idx + 1]

\* the node id is left as inherited from the root
create_global_subdomain_NoNodeId(b, global_domain, subdomain, rel_idx) ==
  LET node_hostname == host_names(b.ul)[rel_idx + 1]
      node_unit_ids == node_units(b.ul, node_hostname)
  IN [subdomain EXCEPT !.host = node_hostname,
                       !.num_nodes = 1,
                       !.num_units = Len(node_unit_ids),
                       !.unit_ids = node_unit_ids]

create_global_subdomain(b, global_domain, subdomain, rel_idx) ==
  LET node_hostname == host_names(b.ul)[rel_idx + 1]
      node_unit_ids == node_units(b.ul, node_hostname)
  IN [subdomain EXCEPT !.host = node_hostname,
                       !.node_id = rel_idx,
                       !.num_nodes = 1,
                       !.num_units = Len(node_unit_ids),
                       !.unit_ids = node_unit_ids]

create_node_subdomain(b, node_domain, subdomain, rel_idx) ==
  LET module_hostname == NodeModuleHostname(b, node_domain, rel_idx)
      module_unit_ids == module_units(b.ul, module_hostname)
  IN [subdomain EXCEPT !.host = module_hostname,
                       !.num_nodes = 1,
                       !.num_units = Len(module_unit_ids),
                       !.unit_ids = module_unit_ids]

\* every unit of the module goes to every NUMA child
create_module_subdomain_AllUnits(b, module_domain, subdomain, rel_idx) ==
  LET module_unit_ids == module_units(b.ul, module_domain.host)
  IN [subdomain EXCEPT !.host = module_domain.host,
                       !.hwinfo = [num_modules |-> 1, num_numa |-> 1,
                                   num_cores |-> Len(module_unit_ids)],
                       !.num_nodes = 1,
                       !.num_units = Len(module_unit_ids),
                       !.unit_ids = module_unit_ids]

\* the units of the module whose NUMA id is the relative index
create_module_subdomain(b, module_domain, subdomain, rel_idx) ==
  LET module_unit_ids == module_units(b.ul, module_domain.host)
      numa_unit_ids ==
        SelectSeq(module_unit_ids, LAMBDA u : b.ul[u].numa_id = rel_idx)
  IN [subdomain EXCEPT !.host = module_domain.host,
                       !.hwinfo = [num_modules |-> 1, num_numa |-> 1,
                                   num_cores |-> Len(numa_unit_ids)],
                       !.num_nodes = 1,
                       !.num_units = Len(numa_unit_ids),
                       !.unit_ids = numa_unit_ids]

\* every segment starts at the first unit of the NUMA domain
create_numa_subdomain_FirstSegment(b, numa_domain, subdomain, rel_idx) ==
  LET num_uma_units == numa_domain.num_units \div numa_domain.num_domains
  IN [subdomain EXCEPT
        !.hwinfo = [num_modules |-> 1, num_numa |-> 1,
                    num_cores |-> numa_domain.hwinfo.num_cores
                                    \div numa_domain.num_domains],
        !.num_nodes = 1,
        !.num_units = num_uma_units,
        !.unit_ids = [u \in 1 .. num_uma_units |-> numa_domain.unit_ids[u]]]

\* the balanced split of a NUMA domain (num_domains is not 0 here)
create_numa_subdomain(b, numa_domain, subdomain, rel_idx) ==
  LET num_uma_units == numa_domain.num_units \div numa_domain.num_domains
  IN [subdomain EXCEPT
        !.hwinfo = [num_modules |-> 1, num_numa |-> 1,
                    num_cores |-> numa_domain.hwinfo.num_cores
                                    \div numa_domain.num_domains],
        !.num_nodes = 1,
        !.num_units = num_uma_units,
        !.unit_ids = [u \in 1 .. num_uma_units |->
                        numa_domain.unit_ids[rel_idx * num_uma_units + u]]]

\* create_numa_subdomain also stores the subdomain's tag in the unit
\* locality of each of its units
TagUnits(ul, subdomain) ==
  [u \in DOMAIN ul |->
     IF \E i \in DOMAIN subdomain.unit_ids : subdomain.unit_ids[i] = u
     THEN [ul[u] EXCEPT !.domain_tag = subdomain.domain_tag]
     ELSE ul[u]]

\* b holds the tree built so far (path -> domain) and the unit localities
RECURSIVE create_subdomains(_, _)
RECURSIVE CreateSubdomainsLoop(_, _, _)

\* second step of create_subdomains: subdomain rel_idx and those after it
CreateSubdomainsLoop(b, path, rel_idx) ==
  LET domain == b.tree[path]
      inherited ==
        [domain_locality_init EXCEPT
           !.hwinfo = domain.hwinfo,
           !.scope = SubScope(domain.scope),
           !.relative_index = rel_idx,
           !.level = domain.level + 1,
           !.node_id = domain.node_id,
           !.host = domain.host,
           !.domain_tag = SubdomainTag(domain, rel_idx)]
      subdomain ==
        CASE domain.scope = "GLOBAL" ->
               create_global_subdomain(b, domain, inherited, rel_idx)
          [] domain.scope = "NODE" ->
               create_node_subdomain(b, domain, inherited, rel_idx)
          [] domain.scope = "MODULE" ->
               create_module_subdomain(b, domain, inherited, rel_idx)
          [] domain.scope = "NUMA" ->
               create_numa_subdomain(b, domain, inherited, rel_idx)
      with == [b EXCEPT
                 !.tree = (Append(path, rel_idx) :> subdomain) @@ @,
                 !.ul = IF domain.scope = "NUMA" THEN TagUnits(@, subdomain)
                        ELSE @]
  IN IF rel_idx >= domain.num_domains THEN b
     ELSE CreateSubdomainsLoop(create_subdomains(with, Append(path, rel_idx)),
                               path, rel_idx + 1)

create_subdomains(b, path) ==
  LET domain == b.tree[path]
      counted ==
        [domain EXCEPT
           !.num_domains = NumSubdomains(b, domain),
           !.num_units = IF domain.scope = "MODULE"
                         THEN Len(module_units(b.ul, ModuleHostname(b, domain)))
                         ELSE @]
      b1 == [b EXCEPT !.tree[path] = counted]
  IN IF counted.num_domains = 0 THEN b1
     ELSE CreateSubdomainsLoop(b1, path, 0)

\* dart__base__locality__init from the root domain on
locality_init(ul, hw) ==
  create_subdomains([tree |-> (RootPath :> RootDomain(ul, hw)), ul |-> ul],
                    RootPath)

\* ------------------------------------------- dart__base__locality__domain

\* the outcomes of the lookup once it has left the children array: the
\* memory found there decides
WildOutcomes(path) ==
  { [ret |-> "OK", dom |-> path, oob |-> TRUE],
    [ret |-> "ERR_INVAL", dom |-> RootPath, oob |-> TRUE],
    [ret |-> "SIGSEGV", dom |-> RootPath, oob |-> TRUE] }

\* the loop over the parts of the tag, at the domain at path, dot_begin the
\* position of the dot in front of the next part
RECURSIVE DomainWalk(_, _, _, _)
DomainWalk(tree, tag, path, dot_begin) ==
  LET part_begin == dot_begin + 1
      part == strtol(tag, part_begin)
      \* (int)(tag_part): the value itself for tags of fewer than ten digits
      subdomain_idx == part.val
  IN IF dot_begin = NULL \/ CharAt(tag, dot_begin) = NUL
          \/ CharAt(tag, part_begin) = NUL
     THEN {[ret |-> "OK", dom |-> path, oob |-> FALSE]}
     ELSE IF tree[path].num_domains <= subdomain_idx
     THEN {[ret |-> "ERR_INVAL", dom |-> RootPath, oob |-> FALSE]}
     ELSE IF subdomain_idx < 0
     THEN WildOutcomes(Append(path, subdomain_idx))
     ELSE DomainWalk(tree, tag, Append(path, subdomain_idx), part.end)

\* the possible results of dart__base__locality__domain(tag)
locality_domain(tree, tag) == DomainWalk(tree, tag, RootPath, strchr_dot(tag))

\* ------------------------------------- dart__base__locality__local_unit_new

\* the quotient of the C division a / b, b not 0
CDiv(a, b) ==
  LET q == (IF a < 0 THEN -a ELSE a) \div (IF b < 0 THEN -b ELSE b)
  IN IF (a < 0) = (b < 0) THEN q ELSE -q

\* what a division by zero can leave in the quotient where it does not trap
DivGarbage == {-1, 0, 7}

unit_locality_init ==
  [numa_id |-> -1, num_cores |-> -1, min_threads |-> -1, max_threads |-> -1]

\* the thread counts are left as they are
AtLeastOne_Keep(n) == n

\* a count that is not positive becomes 1
AtLeastOne(n) == IF n <= 0 THEN 1 ELSE n

\* the possible results of local_unit_new: probe is what dart_hwinfo
\* reports (the root domain holds a copy of it), build the compile-time
\* switches, n_cpus the number of processing units hwloc counts
local_unit_new(loc_null, probe, build, n_cpus) ==
  LET h0 == [probe EXCEPT !.num_cores = 1]
      quotients ==
        IF probe.num_cores = 0 THEN DivGarbage
        ELSE {CDiv(n_cpus, probe.num_cores)}
      after_hwloc ==
        IF build.hwloc /\ n_cpus > 0
        THEN {[h0 EXCEPT !.min_threads = 1, !.max_threads = q] :
                q \in quotients}
        ELSE {h0}
      mic(h) ==
        IF build.mic
        THEN LET m == [h EXCEPT
                         !.numa_id = IF @ < 0 THEN 0 ELSE @,
                         !.num_cores = IF @ <= 0 THEN 1 ELSE @]
             IN [m EXCEPT !.min_threads = m.num_cores * 4,
                          !.max_threads = m.num_cores * 4]
        ELSE h
      final(h) ==
        [h EXCEPT !.min_threads = AtLeastOne(@),
                  !.max_threads = AtLeastOne(@),
                  !.numa_id = IF @ < 0 THEN 0 ELSE @]
  IN IF loc_null
     THEN {[ret |-> "ERR_INVAL", hwinfo |-> unit_locality_init]}
     ELSE {[ret |-> "OK", hwinfo |-> final(mic(h))] : h \in after_hwloc}
          \cup (IF build.hwloc /\ n_cpus > 0 /\ probe.num_cores = 0
                THEN {[ret |-> "SIGFPE", hwinfo |-> unit_locality_init]}
                ELSE {})

\* -------------------------------------------- the calls of the locality module

HostNames == {"h1", "h2"}

\* the unit localities as gathered from all units before the tree is built:
\* every unit's tag is that of the root
UnitLocalities ==
  UNION {[0 .. (n - 1) -> [host : HostNames, numa_id : 0 .. (MaxNuma - 1),
                           domain_tag : {<<".">>}]] : n \in 1 .. MaxUnits}

\* dart__base__locality__init: the tree is built from the root
LocalityInit ==
  /\ domain_root = <<>>
  /\ LET b == locality_init(unit_locality, hwinfo)
     IN /\ domain_root' = b.tree
        /\ unit_locality' = b.ul
  /\ loc_call' = [NoCall EXCEPT !.op = "init"]
  /\ UNCHANGED <<hwinfo, datadeps_vars, hash_vars, merge_vars>>

\* the tag that leads to the domain at path
RECURSIVE TagOfPath(_)
TagOfPath(path) ==
  IF path = <<>> THEN <<".">>
  ELSE (IF Len(path) = 1 THEN <<>> ELSE TagOfPath(SubSeq(path, 1, Len(path) - 1)))
         \o <<".">> \o sprintf_d(path[Len(path)])

\* child indices tried in lookups: in and out of range
LookupIndices == -1 .. MaxUnits

\* the tags looked up: those of the domains built, and those that leave the
\* tree at some domain, with or without a further part
LookupPaths ==
  DOMAIN domain_root
    \cup {Append(p, i) : p \in DOMAIN domain_root, i \in LookupIndices}
    \cup {p \o <<i, 0>> : p \in DOMAIN domain_root, i \in LookupIndices}

LookupTags ==
  {domain_root[p].domain_tag : p \in DOMAIN domain_root}
    \cup {TagOfPath(q) : q \in LookupPaths}

DomainLookup(tag) ==
  /\ domain_root # <<>>
  /\ \E out \in locality_domain(domain_root, tag) :
       loc_call' = [NoCall EXCEPT !.op = "domain", !.tag = tag,
                                  !.ret = out.ret, !.dom = out.dom,
                                  !.oob = out.oob]
  /\ UNCHANGED <<unit_locality, hwinfo, domain_root, datadeps_vars,
                 hash_vars, merge_vars>>

\* what the probe may report: unknown (-1), zero or a proper value
Probes ==
  {[numa_id |-> n, num_cores |-> c, min_threads |-> t, max_threads |-> t] :
     n \in {-1, 0, 1}, c \in {-1, 0, 2}, t \in {-1, 0, 2}}

Builds == [hwloc : BOOLEAN, mic : BOOLEAN]

\* each unit fills its own locality record, once, before the tree is built
LocalUnitNew(loc_null, probe, build, n_cpus) ==
  /\ domain_root = <<>>
  /\ loc_call.op = "none"
  /\ \E out \in local_unit_new(loc_null, probe, build, n_cpus) :
       loc_call' = [NoCall EXCEPT !.op = "local_unit_new",
                                  !.loc_null = loc_null, !.probe = probe,
                                  !.ret = out.ret, !.hwinfo = out.hwinfo]
  /\ UNCHANGED <<unit_locality, hwinfo, domain_root, datadeps_vars,
                 hash_vars, merge_vars>>

InitLoc ==
  /\ DatadepsInit
  /\ unit_locality \in UnitLocalities
  /\ hwinfo \in [num_numa : 1 .. MaxNuma, num_cores : {1}]
  /\ \A u \in DOMAIN unit_locality : unit_locality[u].numa_id < hwinfo.num_numa
  /\ domain_root = <<>>
  /\ loc_call = NoCall
  /\ hash_call = NoHash
  /\ merge = NoMerge

NextLoc ==
  \/ LocalityInit
  \/ \E tag \in LookupTags : DomainLookup(tag)
  \/ \E loc_null \in BOOLEAN, probe \in Probes, build \in Builds,
        n_cpus \in {0, 4} :
       LocalUnitNew(loc_null, probe, build, n_cpus)

SpecLoc == InitLoc /\ [][NextLoc]_vars

\* ---------------------------------------------------- notions of the claims

Range(seq) == {seq[i] : i \in DOMAIN seq}

\* the releases sent so far for the IN request of remote task r
ReleaseCount(bag, r) ==
  BagCardinality([m \in {x \in BagToSet(bag) : x.kind = "release"
                                                 /\ x.rtask = r
                                                 /\ x.type = "IN"} |-> bag[m]])

\* READY (in a ready queue), RUNNING or beyond
Started(t) ==
  \/ task[t].state \in {"RUNNING", "FINISHED"}
  \/ \E k \in Threads : t \in Range(queue[k])

\* no thread is inside the calls that register task t
Registered(t) ==
  /\ task[t].state # "NONE"
  /\ \A k \in Threads :
       th[k].t = t =>
         th[k].pc \notin {"ht_dep", "ht_scan", "alloc", "alloc_lock", "al_push",
                          "sw_check", "sw_lock", "sw_walk", "tc_enqueue"}

\* the request of remote task r is on the remote successors of local task t
Attached(r, t) ==
  \E e \in Range(Chain(elem, task[t].remote_successor)) :
    elem[e].task = r /\ elem[e].type = "IN"

\* two entries on the same address, at least one of them a write
Conflict(a, b) == a.addr = b.addr /\ (IS_OUT_DEP(a.type) \/ IS_OUT_DEP(b.type))

Quiescent ==
  /\ \A k \in Threads : th[k].pc = "idle" /\ queue[k] = <<>>
  /\ \A t \in Tasks : task[t].state \in {"NONE", "FINISHED"}
  /\ unhandled_remote_deps = NULL

\* ------------------------------------------------------------------ claims

\* C1: of two tasks with conflicting dependencies on one local address, the
\* one registered later (its entry is nearer the head of the slot chain) is
\* not READY or RUNNING before the one registered earlier is FINISHED.
C1_LocalOrdering ==
  \A slot \in DOMAIN local_deps :
    LET c == Chain(elem, local_deps[slot])
    IN \A i, j \in DOMAIN c :
         (/\ i < j
          /\ elem[c[i]].task # elem[c[j]].task
          /\ Conflict(elem[c[i]], elem[c[j]])
          /\ Started(elem[c[i]].task))
           => task[elem[c[j]].task].state = "FINISHED"

\* C2: when the registrations of two unfinished tasks with an OUT dependency
\* on the same address have both returned, with no other write entry between
\* theirs, the task of the upper entry is in the successor list of the task
\* of the deeper entry, not the other way round, and its counter counts it.
C2_ScanAndInsertAtomic ==
  \A slot \in DOMAIN local_deps :
    LET c == Chain(elem, local_deps[slot])
    IN \A i, j \in DOMAIN c :
         LET t2 == elem[c[i]].task
             t1 == elem[c[j]].task
         IN (/\ i < j
             /\ t1 # t2
             /\ elem[c[i]].addr = elem[c[j]].addr
             /\ IS_OUT_DEP(elem[c[i]].type) /\ IS_OUT_DEP(elem[c[j]].type)
             /\ \A m \in DOMAIN c :
                  (i < m /\ m < j) =>
                    ~(elem[c[m]].addr = elem[c[i]].addr
                        /\ IS_OUT_DEP(elem[c[m]].type))
             /\ Registered(t1) /\ Registered(t2)
             /\ task[t1].state # "FINISHED" /\ task[t2].state # "FINISHED")
              => /\ t2 \in Range(task[t1].successor)
                 /\ t1 \notin Range(task[t2].successor)
                 /\ task[t2].unresolved_deps >= 1

\* C3: the counter of unresolved dependencies of a task is never negative,
\* however the calls of the threads interleave.
C3_UnresolvedNonNegative == \A t \in Tasks : task[t].unresolved_deps >= 0

\* C4: no IN request is released more than once, whichever of the releasing
\* paths (finished writer at arrival, release of the writer, flush of the
\* unhandled list) answer it.
C4_NeverReleasedTwice == \A r \in RTasks : ReleaseCount(msgs, r) <= 1

\* C5: no accepted request is lost: once every created task has finished and
\* been released and the unhandled list has been flushed, every IN request
\* that was accepted has been answered by a release.
C5_NoRequestLost ==
  Quiescent => \A r \in RTasks : reqs[r].seen => ReleaseCount(msgs, r) >= 1

\* C6: the call of end_phase sends one release for every entry of
\* the unhandled list and leaves the list empty.
C6_EndPhaseFlushes ==
  [][(\E k \in Threads : EndPhase(k)) =>
       /\ unhandled_remote_deps' = NULL
       /\ \A e \in Range(Chain(elem, unhandled_remote_deps)) :
            ReleaseCount(msgs', elem[e].task) = ReleaseCount(msgs, elem[e].task) + 1
    ]_vars

\* C7: once end_phase(p) has been called, no task of a phase after p is READY
\* or further while a request of a phase up to p, received before that call,
\* is neither released nor on a local task's remote successors.
C7_PhaseGuarantee ==
  \A r \in RTasks, t \in Tasks :
    (/\ reqs[r].seen
     /\ reqs[r].phase <= ended_phase
     /\ reqs[r].arrived <= ended_phase
     /\ task[t].state # "NONE"
     /\ task[t].phase > ended_phase
     /\ Started(t))
      => \/ ReleaseCount(msgs, r) >= 1
         \/ \E u \in Tasks : Attached(r, u)

\* C8: handle_remote_task with a dependency type other than IN returns the
\* invalid-argument error and changes no chain, no list and sends nothing.
C8_RejectsNonIn ==
  [][\A k \in Threads, r \in RTasks, type \in RemoteTypes \ {"IN"},
        addr \in RemoteAddrs, phase \in Phases, origin \in Origins :
       HandleRemoteTask(k, r, type, addr, phase, origin, TRUE, MaxLoad) =>
         /\ last_ret' = "ERR_INVAL"
         /\ UNCHANGED <<elem, nalloc, local_deps, freelist_head,
                        unhandled_remote_deps, local_deps_mutex, task, queue,
                        th, msgs, direct_pending>>
    ]_vars

\* a request has been rejected
C8_Witness == last_ret = "ERR_INVAL"

\* C9: the step of handle_task that meets a dependency owned by another unit
\* sends one remote_datadep and goes on to the next dependency: no element is
\* allocated or pushed, no task changes, the sweep is not entered.
C9_RemoteDepOnlyForwarded ==
  [][\A k \in Threads :
       (/\ th[k].pc = "ht_dep"
        /\ th[k].i <= Len(task[th[k].t].deps)
        /\ task[th[k].t].deps[th[k].i].unit # myid
        /\ th'[k] # th[k])
         => LET t == th[k].t
                d == task[t].deps[th[k].i]
            IN /\ msgs' = Send(msgs, Msg("datadep", d.unit, t, NULL,
                                         d.type, d.addr))
               /\ th'[k] = [th[k] EXCEPT !.i = @ + 1]
               /\ UNCHANGED <<elem, nalloc, local_deps, freelist_head,
                              unhandled_remote_deps, local_deps_mutex, task,
                              queue, direct_pending>>
    ]_vars

\* the remote dependency of a task has been forwarded, the loop is at the
\* task's second dependency
C9_Witness ==
  \E k \in Threads :
    /\ th[k].pc = "ht_dep"
    /\ th[k].i = 2
    /\ task[th[k].t].deps[1].unit # myid
    /\ \E m \in BagToSet(msgs) : m.kind = "datadep" /\ m.ltask = th[k].t

\* C10: reset leaves every slot head NULL and every entry of the chains
\* zeroed on the free list, leaves the unhandled list and the tasks (their
\* remote successors) alone, and a second reset right after changes nothing.
C10_ResetEmptiesTable ==
  [][(\E k \in Threads : Reset(k)) =>
       LET es == AllChains(S, DOMAIN local_deps)
           once == dart_tasking_datadeps_reset(S)
       IN /\ \A slot \in 0 .. (DART_DEPHASH_SIZE - 1) :
               slot \notin DOMAIN local_deps'
          /\ \A e \in Range(es) :
               /\ e \in Range(Chain(elem', freelist_head'))
               /\ [elem'[e] EXCEPT !.next = NULL] = ZeroElem
          /\ unhandled_remote_deps' = unhandled_remote_deps
          /\ \A e \in Range(Chain(elem, unhandled_remote_deps)) :
               elem'[e] = elem[e]
          /\ task' = task
          /\ \A t \in Tasks :
               \A e \in Range(Chain(elem, task[t].remote_successor)) :
                 elem'[e] = elem[e]
          /\ dart_tasking_datadeps_reset(once) = once
    ]_vars

\* the table is empty again after a task with a local dependency was
\* registered, and the entry is on the free list
C10_Witness ==
  /\ local_deps = <<>>
  /\ freelist_head # NULL
  /\ \E t \in Tasks :
       /\ task[t].state = "FINISHED"
       /\ \E i \in DOMAIN task[t].deps : task[t].deps[i].unit = myid

\* the unit ids of the CORE leaves below the domain at path, in pre-order,
\* from child i on
RECURSIVE LeafUnits(_, _, _)
LeafUnits(tree, path, i) ==
  IF tree[path].scope = "CORE" THEN tree[path].unit_ids
  ELSE IF i >= tree[path].num_domains THEN <<>>
  ELSE LeafUnits(tree, Append(path, i), 0) \o LeafUnits(tree, path, i + 1)

\* C11: once the tree is built, every unit is in exactly one CORE leaf, and
\* the unit ids of the leaves in pre-order are the unit ids of the root.
C11_LeavesPartitionUnits ==
  domain_root # <<>> =>
    /\ \A u \in DOMAIN unit_locality :
         Cardinality({p \in DOMAIN domain_root :
                        /\ domain_root[p].scope = "CORE"
                        /\ u \in Range(domain_root[p].unit_ids)}) = 1
    /\ LeafUnits(domain_root, RootPath, 0) = domain_root[RootPath].unit_ids

\* C12: the lookup of the tag of a domain that was built returns OK and
\* that domain; the lookup of "." returns the root.
C12_TagRoundTrip ==
  loc_call.op = "domain" =>
    /\ \A p \in DOMAIN domain_root :
         domain_root[p].domain_tag = loc_call.tag =>
           loc_call.ret = "OK" /\ loc_call.dom = p
    /\ loc_call.tag = <<".">> => loc_call.ret = "OK" /\ loc_call.dom = RootPath

\* the tag of a CORE leaf below the node at index 1 has been looked up
C12_Witness ==
  /\ loc_call.op = "domain"
  /\ loc_call.ret = "OK"
  /\ Len(loc_call.dom) = 4
  /\ loc_call.dom[1] = 1
  /\ domain_root[loc_call.dom].scope = "CORE"
  /\ domain_root[loc_call.dom].domain_tag = loc_call.tag

\* the child indices a looked-up tag spells
Requested(tag) == CHOOSE q \in LookupPaths : TagOfPath(q) = tag

\* every index of path q is one of a child of the domain reached before it
InRange(tree, q) ==
  \A i \in DOMAIN q :
    /\ SubSeq(q, 1, i - 1) \in DOMAIN tree
    /\ 0 <= q[i]
    /\ q[i] < tree[SubSeq(q, 1, i - 1)].num_domains

\* C13: a lookup whose tag holds an index that is negative or not below the
\* number of children of the domain reached (a leaf has none) returns the
\* invalid-argument error without leaving a children array; the lookup
\* returns OK only when every index is in range.
C13_LookupRejectsOutOfRange ==
  loc_call.op = "domain" =>
    LET q == Requested(loc_call.tag)
    IN /\ ~InRange(domain_root, q) =>
            loc_call.ret = "ERR_INVAL" /\ ~loc_call.oob
       /\ loc_call.ret = "OK" => InRange(domain_root, q)

\* C14: once the tree is built, the domain tag in the locality record of
\* every unit u names a CORE leaf whose units are exactly u, below the NODE
\* domain whose host is u's host.
C14_UnitTagNamesLeaf ==
  domain_root # <<>> =>
    \A u \in DOMAIN unit_locality :
      \A out \in locality_domain(domain_root, unit_locality[u].domain_tag) :
        /\ out.ret = "OK"
        /\ Len(out.dom) >= 1
        /\ domain_root[out.dom].scope = "CORE"
        /\ domain_root[out.dom].unit_ids = <<u>>
        /\ domain_root[<<out.dom[1]>>].scope = "NODE"
        /\ domain_root[<<out.dom[1]>>].host = unit_locality[u].host

\* C15: every step of a thread that reads or writes a slot head or chain,
\* the free list or the list of unhandled remote dependencies is taken with
\* local_deps_mutex held.
C15_SharedUnderMutex ==
  [][\A k \in Threads :
       (th'[k] # th[k] /\ TouchesShared(S, k)) => th[k].pc \in LockedSteps
    ]_vars

\* C16: no thread acquires local_deps_mutex while it holds the mutex of a
\* task, and no thread holds the mutexes of two tasks.
C16_LockOrder ==
  /\ [][\A k \in Threads :
          (th'[k] # th[k] /\ AcquiresM(S, k)) => HeldTaskMutexes(S, k) = {}
       ]_vars
  /\ [](\A k \in Threads : Cardinality(HeldTaskMutexes(S, k)) <= 1)

\* C17: local_unit_new with a NULL record returns the invalid-argument
\* error; when it returns OK the record has numa_id >= 0, num_cores = 1 and
\* both thread counts >= 1, whatever the probe reported.
C17_LocalUnitNewNormalises ==
  loc_call.op = "local_unit_new" =>
    /\ loc_call.loc_null => loc_call.ret = "ERR_INVAL"
    /\ loc_call.ret = "OK" =>
         /\ ~loc_call.loc_null
         /\ loc_call.hwinfo.numa_id >= 0
         /\ loc_call.hwinfo.num_cores = 1
         /\ loc_call.hwinfo.min_threads >= 1
         /\ loc_call.hwinfo.max_threads >= 1

\* the probe knew neither the NUMA id nor the thread counts, and the call
\* returned OK
C17_Witness ==
  /\ loc_call.op = "local_unit_new"
  /\ loc_call.ret = "OK"
  /\ loc_call.probe.numa_id = -1
  /\ loc_call.probe.num_cores = 0
  /\ loc_call.probe.min_threads = -1
  /\ loc_call.hwinfo.min_threads = 1

\* the entries of chain c that the walk of handle_task for dependency d looks
\* at: up to and including the first write entry on d's address
Walked(c, d) ==
  LET stops == {i \in DOMAIN c : elem[c[i]].addr = d.addr
                                   /\ IS_OUT_DEP(elem[c[i]].type)}
  IN IF stops = {} THEN DOMAIN c
     ELSE 1 .. (CHOOSE i \in stops : \A j \in stops : i <= j)

\* C18: registering task T with local dependency D makes T a successor of
\* the task of exactly each walked entry E on D's address whose task is not
\* FINISHED and for which D is a write, or D is IN and E is a write; T's
\* counter is incremented once per such entry (the only other increments are
\* the direct dependencies of the sweep).  Entries on other addresses of the
\* slot add no edge and do not end the walk.
C18_PredecessorEdges ==
  [][\A k \in Threads, t \in Tasks, deps \in DepLists :
       TaskCreate(k, t, deps, TRUE, MaxLoad) =>
         LET d == deps[Len(deps)]
             c == Chain(elem, SlotHead(S, hash_gptr(d.addr)))
             preds == {i \in Walked(c, d) :
                         /\ elem[c[i]].addr = d.addr
                         /\ task[elem[c[i]].task].state # "FINISHED"
                         /\ \/ d.type \in {"OUT", "INOUT"}
                            \/ d.type = "IN"
                                 /\ elem[c[i]].type \in {"OUT", "INOUT"}}
         IN /\ task'[t].unresolved_deps
                 = Cardinality(preds) + direct_pending'[t]
            /\ \A u \in Tasks \ {t} :
                 LET n == Cardinality({i \in preds : elem[c[i]].task = u})
                 IN task'[u].successor
                      = [j \in 1 .. n |-> t] \o task[u].successor
    ]_vars

\* A with OUT, B with IN and C with OUT on one address, registered in this
\* order and none started: the counters are 0, 1 and 2
C18_Witness ==
  /\ task[1].deps = <<LocalDep("OUT", AddrA)>>
  /\ task[2].deps = <<LocalDep("IN", AddrA)>>
  /\ task[3].deps = <<LocalDep("OUT", AddrA)>>
  /\ \A t \in Tasks : task[t].state = "CREATED"
  /\ task[1].unresolved_deps = 0
  /\ task[2].unresolved_deps = 1
  /\ task[3].unresolved_deps = 2
  /\ task[1].successor = <<3, 2>>
  /\ task[2].successor = <<3>>

\* C19: release_local_task of task T decrements the counter of each task of
\* T's successor list once per occurrence in the list, and appends a
\* successor to the releasing thread's queue exactly at the decrement that
\* gives 0 (the counters are taken after the increments of the direct
\* dependencies that the release of T's remote successors adds); no other
\* queue changes.
C19_ReleaseLocalTask ==
  [][\A k \in Threads :
       TaskFinish(k, TRUE) =>
         LET tl == task[th[k].t].successor
             base(u) == task[u].unresolved_deps
                          + direct_pending'[u] - direct_pending[u]
             left(j) == base(tl[j])
                          - Cardinality({i \in 1 .. j : tl[i] = tl[j]})
             hits == SelectSeq([j \in DOMAIN tl |-> j], LAMBDA j : left(j) = 0)
         IN /\ \A u \in Tasks :
                 task'[u].unresolved_deps
                   = base(u) - Cardinality({i \in DOMAIN tl : tl[i] = u})
            /\ queue'[k] = queue[k] \o [j \in DOMAIN hits |-> tl[hits[j]]]
            /\ \A j \in Threads \ {k} : queue'[j] = queue[j]
    ]_vars

\* two tasks with OUT on one address: the first has finished and been
\* released, the second has no unresolved dependency left and is in a queue
C19_Witness ==
  /\ task[1].deps = <<LocalDep("OUT", AddrA)>>
  /\ task[2].deps = <<LocalDep("OUT", AddrA)>>
  /\ task[1].state = "FINISHED"
  /\ task[1].successor = <<2>>
  /\ task[2].state = "CREATED"
  /\ task[2].unresolved_deps = 0
  /\ \E k \in Threads : queue[k] = <<2>> /\ th[k].pc = "idle"

\* the element that holds the IN request of remote task r from unit origin
\* on addr in phase, in front of the list that began with next
RequestElem(r, origin, addr, phase, next) ==
  [task |-> r, type |-> "IN", unit |-> origin, addr |-> addr,
   phase |-> phase, next |-> next]

\* C20: handle_remote_task for an IN request on address A has one of three
\* outcomes, decided by the newest write entry W on A in A's slot chain:
\* (a) W's task is not FINISHED: one element with the request is pushed onto
\* that task's remote successors and nothing is sent; (b) it is FINISHED: one
\* release goes to the origin and nothing is stored; (c) there is no write
\* entry on A: one element is pushed onto the unhandled list.  Older writers
\* and read entries are never chosen.
C20_RemoteTaskOutcomes ==
  [][\A k \in Threads, r \in RTasks, addr \in RemoteAddrs, phase \in Phases,
        origin \in Origins :
       HandleRemoteTask(k, r, "IN", addr, phase, origin, TRUE, MaxLoad) =>
         LET c == Chain(elem, SlotHead(S, hash_gptr(addr)))
             ws == {i \in DOMAIN c : elem[c[i]].addr = addr
                                       /\ elem[c[i]].type \in {"OUT", "INOUT"}}
             w == CHOOSE i \in ws : \A j \in ws : i <= j
             wt == elem[c[w]].task
             stored(e, list) ==
               /\ e \notin Range(Chain(elem, list))
               /\ elem' = [elem EXCEPT
                             ![e] = RequestElem(r, origin, addr, phase, list)]
         IN /\ last_ret' = "OK"
            /\ local_deps' = local_deps
            /\ queue' = queue
            /\ IF ws # {} /\ task[wt].state # "FINISHED"
               THEN /\ stored(task'[wt].remote_successor,
                              task[wt].remote_successor)
                    /\ task' = [task EXCEPT ![wt].remote_successor =
                                              task'[wt].remote_successor]
                    /\ msgs' = msgs
                    /\ unhandled_remote_deps' = unhandled_remote_deps
               ELSE IF ws # {}
               THEN /\ msgs' = Send(msgs, Msg("release", origin, NULL, r,
                                              "IN", addr))
                    /\ UNCHANGED <<elem, nalloc, freelist_head, task,
                                   unhandled_remote_deps>>
               ELSE /\ stored(unhandled_remote_deps', unhandled_remote_deps)
                    /\ task' = task
                    /\ msgs' = msgs
    ]_vars

\* two unfinished writers of the address: the request is on the remote
\* successors of the newer one and not on those of the older one
C20_Witness ==
  /\ task[1].deps = <<LocalDep("OUT", AddrA)>>
  /\ task[2].deps = <<LocalDep("OUT", AddrA)>>
  /\ task[1].state # "FINISHED" /\ task[2].state # "FINISHED"
  /\ task[1].remote_successor = NULL
  /\ task[2].remote_successor # NULL
  /\ elem[task[2].remote_successor]
       = RequestElem(101, 1, AddrA, 0, NULL)
  /\ msgs = EmptyBag
  /\ unhandled_remote_deps = NULL

\* the dependency list holds a write on address addr
WritesTo(deps, addr) ==
  \E i \in DOMAIN deps :
    deps[i].unit = myid /\ deps[i].addr = addr /\ IS_OUT_DEP(deps[i].type)

\* the number of places of the list with head e that hold element x
Occurrences(heap, e, x) ==
  Cardinality({i \in DOMAIN Chain(heap, e) : Chain(heap, e)[i] = x})

\* C21: when a local task T registers a write on address A, every entry of
\* unhandled_remote_deps on A whose phase is T's phase leaves the list and
\* is found exactly once on T's remote successors, with the remote task, the
\* origin, the type and the address it was parked with (so that the release
\* of T answers it).
C21_SweepSamePhase ==
  [][\A k \in Threads, t \in Tasks, deps \in DepLists :
       TaskCreate(k, t, deps, TRUE, MaxLoad) =>
         \A e \in Range(Chain(elem, unhandled_remote_deps)) :
           (WritesTo(deps, elem[e].addr) /\ elem[e].phase = cur_phase) =>
             /\ e \notin Range(Chain(elem', unhandled_remote_deps'))
             /\ Occurrences(elem', task'[t].remote_successor, e) = 1
             /\ [elem'[e] EXCEPT !.next = NULL] = [elem[e] EXCEPT !.next = NULL]
    ]_vars

\* a request was parked (element 1) before the writer of its phase was
\* registered (element 2, head of the slot): it is on the writer's remote
\* successors and the unhandled list is empty
C21_Witness ==
  \E t \in Tasks :
    /\ nalloc = 2
    /\ SlotHead(S, hash_gptr(AddrA)) = 2
    /\ elem[2].task = t /\ elem[2].type = "OUT"
    /\ task[t].remote_successor = 1
    /\ elem[1] = RequestElem(101, 1, AddrA, task[t].phase, NULL)
    /\ unhandled_remote_deps = NULL
    /\ msgs = EmptyBag

\* the direct requests handed to the transport so far
DirectCount(bag) ==
  BagCardinality([m \in {x \in BagToSet(bag) : x.kind = "direct"} |-> bag[m]])

\* C22: the sweep that handle_task runs for a task T leaves in
\* unhandled_remote_deps, in their order, exactly the entries it held before
\* except those on an address T writes whose phase is T's phase; when T
\* declares no write, the list is unchanged and no direct request is sent.
C22_SweepFrame ==
  [][\A k \in Threads, t \in Tasks, deps \in DepLists :
       TaskCreate(k, t, deps, TRUE, MaxLoad) =>
         LET swept(e) == WritesTo(deps, elem[e].addr) /\ elem[e].phase = cur_phase
         IN /\ Chain(elem', unhandled_remote_deps')
                 = SelectSeq(Chain(elem, unhandled_remote_deps),
                             LAMBDA e : ~swept(e))
            /\ (\A i \in DOMAIN deps : ~IS_OUT_DEP(deps[i].type)) =>
                 /\ unhandled_remote_deps' = unhandled_remote_deps
                 /\ DirectCount(msgs') = DirectCount(msgs)
    ]_vars

\* the direct requests in bag that ask unit to make remote task r wait for
\* local task t
DirectRequests(bag, unit, t, r) ==
  LET m == Msg("direct", unit, t, r, "DIRECT", 0)
  IN IF m \in BagToSet(bag) THEN bag[m] ELSE 0

\* C23: when handle_task registers a write of task T on address A, then for
\* each entry R of unhandled_remote_deps on A with R.phase < T.phase exactly
\* one direct request (R.origin, T, R.remote task) is sent and T's counter
\* of unresolved dependencies grows by one per such entry (on top of the
\* edges from local predecessors); for entries with R.phase >= T.phase no
\* direct request is sent.
C23_SweepEarlierPhase ==
  [][\A k \in Threads, t \in Tasks, deps \in DepLists :
       TaskCreate(k, t, deps, TRUE, MaxLoad) =>
         LET list == Chain(elem, unhandled_remote_deps)
             onA == {i \in DOMAIN list : WritesTo(deps, elem[list[i]].addr)}
             early == {i \in onA : elem[list[i]].phase < cur_phase}
             preds == {u \in Tasks : t \in Range(task'[u].successor)
                                     /\ t \notin Range(task[u].successor)}
         IN /\ \A r \in RTasks, o \in Origins :
                 DirectRequests(msgs', o, t, r) - DirectRequests(msgs, o, t, r)
                   = Cardinality({i \in early : elem[list[i]].task = r
                                                /\ elem[list[i]].unit = o})
            /\ DirectCount(msgs') - DirectCount(msgs) = Cardinality(early)
            /\ task'[t].unresolved_deps
                 = Cardinality(preds) + Cardinality(early)
            /\ direct_pending'[t] = Cardinality(early)
    ]_vars

\* a writer registered in phase 1 while the requests of two remote tasks of
\* phase 0 were parked: two direct requests, two unresolved dependencies, both
\* requests still on the list
C23_Witness ==
  /\ cur_phase = 1
  /\ task[1].deps = <<LocalDep("OUT", AddrA)>>
  /\ task[1].phase = 1
  /\ task[1].unresolved_deps = 2
  /\ msgs = Send(Send(EmptyBag, Msg("direct", 1, 1, 101, "DIRECT", 0)),
                 Msg("direct", 1, 1, 102, "DIRECT", 0))
  /\ Len(Chain(elem, unhandled_remote_deps)) = 2
  /\ task[1].remote_successor = NULL

\* the place of the first entry of task t on address addr in the chain of
\* addr's slot, 0 if there is none
EntryPlace(t, addr) ==
  LET c == Chain(elem, SlotHead(S, hash_gptr(addr)))
      ps == {i \in DOMAIN c : elem[c[i]].task = t /\ elem[c[i]].addr = addr}
  IN IF ps = {} THEN 0 ELSE CHOOSE i \in ps : \A j \in ps : i <= j

\* task w holds a write entry on addr that was registered after the entry
\* of task t on addr (it is nearer the head of the slot chain)
WritesAfter(w, t, addr) ==
  LET c == Chain(elem, SlotHead(S, hash_gptr(addr)))
  IN /\ EntryPlace(t, addr) > 0
     /\ \E i \in 1 .. (EntryPlace(t, addr) - 1) :
          /\ elem[c[i]].task = w
          /\ elem[c[i]].addr = addr
          /\ IS_OUT_DEP(elem[c[i]].type)

\* C24: the release of a finished task T handles T's remote successors
\* first (for each one the direct requests, then the release) and its local
\* successors afterwards, so that a local successor of T that writes the
\* address of a remote IN successor R of T has one more unresolved
\* dependency before its counter is decremented and is not pushed to a
\* ready queue by T's release; after the release T's remote successor list
\* is empty, every remote successor has got its release and every entry of
\* the list is on the free list.
C24_ReleaseOrder ==
  [][\A k \in Threads :
       TaskFinish(k, TRUE) =>
         LET t == th[k].t
             rl == Chain(elem, task[t].remote_successor)
         IN /\ task'[t].remote_successor = NULL
            /\ \A i \in DOMAIN rl :
                 /\ rl[i] \in Range(Chain(elem', freelist_head'))
                 /\ \E m \in BagToSet(msgs') :
                      /\ m.kind = "release"
                      /\ m.rtask = elem[rl[i]].task
                      /\ m.unit = elem[rl[i]].unit
                      /\ msgs'[m] > (IF m \in BagToSet(msgs) THEN msgs[m] ELSE 0)
            /\ \A i \in DOMAIN rl, w \in Range(task[t].successor) :
                 (/\ elem[rl[i]].type = "IN"
                  /\ WritesAfter(w, t, elem[rl[i]].addr)) =>
                   /\ task'[w].unresolved_deps > 0
                   /\ \A j \in Threads : w \notin Range(queue'[j])
    ]_vars

\* C25: when a finished task T is released with a remote IN successor R on
\* address A, every local task W that holds a write entry on A registered
\* after T's and has not started (its counter is above 0) gets one direct
\* request (R.origin, W, R.remote task) and one more unresolved dependency,
\* so that T's release does not make W ready; entries of other addresses
\* in the slot chain make no difference.
C25_WriteAfterRemoteRead ==
  [][\A k \in Threads :
       TaskFinish(k, TRUE) =>
         LET t == th[k].t
             rl == Chain(elem, task[t].remote_successor)
         IN \A i \in DOMAIN rl, w \in Tasks :
              LET rd == elem[rl[i]]
              IN (/\ rd.type = "IN"
                  /\ WritesAfter(w, t, rd.addr)
                  /\ task[w].unresolved_deps > 0) =>
                   /\ DirectRequests(msgs', rd.unit, w, rd.task)
                        = DirectRequests(msgs, rd.unit, w, rd.task) + 1
                   /\ direct_pending'[w] > direct_pending[w]
                   /\ task'[w].unresolved_deps > 0
                   /\ \A j \in Threads : w \notin Range(queue'[j])
    ]_vars

\* the element of a direct dependency of remote task r of unit origin, in
\* front of the list that began with next
DirectElem(r, origin, next) ==
  [task |-> r, type |-> "DIRECT", unit |-> origin, addr |-> 0, phase |-> 0,
   next |-> next]

\* C26: handle_remote_direct(local_task, remote_task, origin) puts exactly
\* one new element {DIRECT, null address, unit = origin, remote_task} in
\* front of local_task's remote successors and changes no slot chain, no
\* counter, no queue, no message and not the unhandled list; when local_task
\* is released, one release for remote_task goes to origin for that element
\* and no direct request is made on its behalf.
C26_RemoteDirect ==
  [][/\ \A k \in Threads, t \in Tasks, r \in RTasks, origin \in Origins :
          HandleRemoteDirect(k, t, r, origin, TRUE, MaxLoad) =>
            LET e == task'[t].remote_successor
            IN /\ e # NULL
               /\ e \notin Range(Chain(elem, task[t].remote_successor))
               /\ elem' = [elem EXCEPT
                             ![e] = DirectElem(r, origin,
                                               task[t].remote_successor)]
               /\ task' = [task EXCEPT ![t].remote_successor = e]
               /\ last_ret' = "OK"
               /\ UNCHANGED <<local_deps, unhandled_remote_deps, msgs, queue,
                              direct_pending>>
     /\ \A k \in Threads :
          TaskFinish(k, TRUE) =>
            LET rl == Chain(elem, task[th[k].t].remote_successor)
            IN \A i \in DOMAIN rl :
                 elem[rl[i]].type = "DIRECT" =>
                   LET r == elem[rl[i]].task
                       o == elem[rl[i]].unit
                       m == Msg("release", o, NULL, r, "DIRECT", 0)
                       same == {j \in DOMAIN rl : elem[rl[j]] = [elem[rl[i]]
                                  EXCEPT !.next = elem[rl[j]].next]}
                   IN /\ m \in BagToSet(msgs')
                      /\ msgs'[m] = (IF m \in BagToSet(msgs) THEN msgs[m] ELSE 0)
                                      + Cardinality(same)
                      /\ (\A j \in DOMAIN rl : elem[rl[j]].type = "IN" =>
                                                 elem[rl[j]].task # r) =>
                           \A w \in Tasks :
                             DirectRequests(msgs', o, w, r)
                               = DirectRequests(msgs, o, w, r)
    ]_vars

\* a task with a remote dependency got a direct request of remote task 102
\* and an IN request of remote task 101 on the address it writes; it has
\* finished: one release each and no direct request, the list is empty
C26_Witness ==
  /\ task[1].deps = <<RemoteDep, LocalDep("OUT", AddrA)>>
  /\ task[1].state = "FINISHED"
  /\ task[1].remote_successor = NULL
  /\ direct_seen = {102}
  /\ reqs[101].seen
  /\ msgs = Send(Send(Send(EmptyBag,
                           Msg("datadep", 1, 1, NULL, "IN", AddrB)),
                      Msg("release", 1, NULL, 102, "DIRECT", 0)),
                 Msg("release", 1, NULL, 101, "IN", AddrA))
  /\ \A k \in Threads : th[k].pc = "idle"

\* the elements of the slot chains that belong to task t
ChainEntries(t) ==
  {e \in Range(AllChains(S, DOMAIN local_deps)) : elem[e].task = t}

\* C27: an entry registered in a slot chain for a task T lives until T
\* finishes: once release_local_task for T has returned, no slot chain
\* holds an entry of T, and the entries T had are on the free list.
C27_EntriesDieWithTask ==
  [][\A k \in Threads :
       TaskFinish(k, TRUE) =>
         /\ \A e \in Range(AllChains([local_deps |-> local_deps',
                                      elem |-> elem'],
                                     DOMAIN local_deps')) :
              elem'[e].task # th[k].t
         /\ \A e \in ChainEntries(th[k].t) :
              e \in Range(Chain(elem', freelist_head'))
    ]_vars

\* the sum of the lengths of the slot chains
ChainLengths == Len(AllChains(S, DOMAIN local_deps))

\* the elements handed out by calloc that are not on the free list
LiveElems == (1 .. nalloc) \ Range(Chain(elem, freelist_head))

\* C28: in every reachable state the sum of the lengths of the slot chains
\* equals the number of DepEntries that have been allocated and are not on
\* the free list.
C28_ChainsHoldAllLive == ChainLengths = Cardinality(LiveElems)

\* the lists element e is on: slot chains, remote successor lists, the
\* unhandled list and the free list
PlacesOf(e) ==
  (IF e \in Range(AllChains(S, DOMAIN local_deps)) THEN 1 ELSE 0)
    + Cardinality({t \in Tasks :
                     e \in Range(Chain(elem, task[t].remote_successor))})
    + (IF e \in Range(Chain(elem, unhandled_remote_deps)) THEN 1 ELSE 0)
    + (IF e \in Range(Chain(elem, freelist_head)) THEN 1 ELSE 0)

\* thread k has come back from dephash_allocate_elem with element th[k].rs
\* and has not stored it yet
HoldsNewElem(k) == th[k].pc \in {"al_push", "hr_push", "hr_park", "hd_push"}

\* C29: under any interleaving of the calls that allocate and recycle
\* DepEntries, an element is handed to one caller only, every element is at
\* any time on at most one of the lists (a slot chain, a task's remote
\* successors, unhandled_remote_deps, the free list), and every element on
\* the free list has a zeroed task reference, so that the assertion
\* elem->task.local == NULL of dephash_allocate_elem holds.
C29_AllocRecycle ==
  /\ \A j, k \in Threads :
       (j # k /\ HoldsNewElem(j) /\ HoldsNewElem(k)) => th[j].rs # th[k].rs
  /\ \A k \in Threads : HoldsNewElem(k) => PlacesOf(th[k].rs) = 0
  /\ \A e \in Elems : PlacesOf(e) <= 1
  /\ \A e \in Range(Chain(elem, freelist_head)) : elem[e].task = NULL

DomainsOf(scope) == {p \in DOMAIN domain_root : domain_root[p].scope = scope}

\* C31: a NODE domain has one child per module of the node; with one module
\* per node the MODULE child has the host of its NODE parent and the units
\* of that host's module, which are the parent's units, whatever the index
\* of the node.
C31_NodeToModule ==
  \A p \in DomainsOf("NODE") :
    /\ domain_root[p].num_domains = num_modules(unit_locality)
    /\ \A i \in 0 .. (domain_root[p].num_domains - 1) :
         LET child == domain_root[Append(p, i)]
         IN /\ child.scope = "MODULE"
            /\ child.host = domain_root[p].host
            /\ child.unit_ids = module_units(unit_locality, domain_root[p].host)
            /\ child.num_units = Len(child.unit_ids)
            /\ child.unit_ids = domain_root[p].unit_ids

\* C32: the root has num_nodes children; child i has the i-th host name,
\* node_id i and, in the same order, the units of that node; every domain
\* below child i has node_id i.
C32_GlobalToNode ==
  domain_root # <<>> =>
    /\ domain_root[RootPath].scope = "GLOBAL"
    /\ domain_root[RootPath].num_domains = num_nodes(unit_locality)
    /\ {p \in DOMAIN domain_root : Len(p) = 1}
         = {<<i>> : i \in 0 .. (num_nodes(unit_locality) - 1)}
    /\ \A i \in 0 .. (num_nodes(unit_locality) - 1) :
         LET child == domain_root[<<i>>]
             host == host_names(unit_locality)[i + 1]
         IN /\ child.scope = "NODE"
            /\ child.host = host
            /\ child.node_id = i
            /\ child.unit_ids = node_units(unit_locality, host)
            /\ child.num_units = Len(node_units(unit_locality, host))
    /\ \A p \in DOMAIN domain_root : Len(p) >= 1 => domain_root[p].node_id = p[1]

\* three units on two hosts, the first host named again by the last unit:
\* node 1 holds the unit in the middle, and its CORE leaf has node_id 1
C32_Witness ==
  /\ domain_root # <<>>
  /\ host_names(unit_locality) = <<"h1", "h2">>
  /\ domain_root[<<0>>].unit_ids = <<0, 2>>
  /\ domain_root[<<1>>].unit_ids = <<1>>
  /\ <<1, 0, 0, 0>> \in DOMAIN domain_root
  /\ domain_root[<<1, 0, 0, 0>>].scope = "CORE"
  /\ domain_root[<<1, 0, 0, 0>>].node_id = 1

\* C33: a MODULE domain has hwinfo.num_numa children; child j holds, in the
\* module's order, exactly the units of the module whose NUMA id is j, its
\* num_units and its hwinfo.num_cores are their number, its
\* hwinfo.num_modules and hwinfo.num_numa are 1, and no unit is in two
\* children.
C33_ModuleToNuma ==
  \A p \in DomainsOf("MODULE") :
    LET module == domain_root[p]
        child(j) == domain_root[Append(p, j)]
    IN /\ module.num_domains = module.hwinfo.num_numa
       /\ \A j \in 0 .. (module.num_domains - 1) :
            /\ child(j).scope = "NUMA"
            /\ child(j).unit_ids
                 = SelectSeq(module.unit_ids,
                             LAMBDA u : unit_locality[u].numa_id = j)
            /\ child(j).num_units = Len(child(j).unit_ids)
            /\ child(j).hwinfo.num_cores = Len(child(j).unit_ids)
            /\ child(j).hwinfo.num_modules = 1
            /\ child(j).hwinfo.num_numa = 1
       /\ \A j, k \in 0 .. (module.num_domains - 1) :
            j # k => Range(child(j).unit_ids) \cap Range(child(k).unit_ids) = {}

\* a module of three units, two NUMA domains: units 0 and 2 in the first,
\* unit 1 in the second
C33_Witness ==
  /\ <<0, 0>> \in DomainsOf("MODULE")
  /\ domain_root[<<0, 0>>].unit_ids = <<0, 1, 2>>
  /\ domain_root[<<0, 0>>].num_domains = 2
  /\ domain_root[<<0, 0, 0>>].unit_ids = <<0, 2>>
  /\ domain_root[<<0, 0, 1>>].unit_ids = <<1>>

\* C34: a NUMA domain of n units has n children; child k is a CORE domain
\* without children, of one unit, the k-th unit of its parent, with
\* hwinfo.num_modules, num_numa and num_cores all 1. A NUMA domain of no
\* unit has no child, and the tree around it is built all the same: every
\* domain of the tree has all the children it counts.
C34_NumaToCore ==
  /\ \A p \in DomainsOf("NUMA") :
       LET numa == domain_root[p]
       IN /\ numa.num_domains = numa.num_units
          /\ numa.num_units = Len(numa.unit_ids)
          /\ \A k \in 0 .. (numa.num_domains - 1) :
               LET core == domain_root[Append(p, k)]
               IN /\ core.scope = "CORE"
                  /\ core.num_domains = 0
                  /\ core.num_units = 1
                  /\ core.unit_ids = <<numa.unit_ids[k + 1]>>
                  /\ core.hwinfo.num_modules = 1
                  /\ core.hwinfo.num_numa = 1
                  /\ core.hwinfo.num_cores = 1
  /\ \A p \in DOMAIN domain_root :
       {q \in DOMAIN domain_root :
          Len(q) = Len(p) + 1 /\ SubSeq(q, 1, Len(p)) = p}
         = {Append(p, k) : k \in 0 .. (domain_root[p].num_domains - 1)}

\* a NUMA domain of two units next to one of none, after a build that
\* returned
C34_Witness ==
  /\ loc_call.op = "init"
  /\ loc_call.ret = "OK"
  /\ <<0, 0, 0>> \in DomainsOf("NUMA")
  /\ domain_root[<<0, 0, 0>>].unit_ids = <<0, 1>>
  /\ domain_root[<<0, 0, 0, 1>>].unit_ids = <<1>>
  /\ <<0, 0, 1>> \in DomainsOf("NUMA")
  /\ domain_root[<<0, 0, 1>>].num_units = 0
  /\ domain_root[<<0, 0, 1>>].num_domains = 0

\* the scopes from the root down
ScopeOrder == <<"GLOBAL", "NODE", "MODULE", "NUMA", "CORE">>

\* the place of the parent of the domain at a path other than the root's
ParentPath(p) == SubSeq(p, 1, Len(p) - 1)

\* C35: the root has level 0 and tag "."; child i of the root has tag ".i",
\* child i of any other domain with tag T has tag T.i; every child is one
\* level below its parent, has relative_index i, hangs below that parent and
\* has the scope that follows its parent's in GLOBAL, NODE, MODULE, NUMA,
\* CORE; no two domains have the same tag.
C35_TagsAndLevels ==
  domain_root # <<>> =>
    /\ domain_root[RootPath].level = 0
    /\ domain_root[RootPath].domain_tag = <<".">>
    /\ domain_root[RootPath].scope = ScopeOrder[1]
    /\ \A p \in DOMAIN domain_root \ {RootPath} :
         LET i == p[Len(p)]
             child == domain_root[p]
         IN /\ ParentPath(p) \in DOMAIN domain_root
            /\ i < domain_root[ParentPath(p)].num_domains
            /\ child.domain_tag
                 = (IF ParentPath(p) = RootPath THEN <<>>
                    ELSE domain_root[ParentPath(p)].domain_tag)
                     \o <<".">> \o sprintf_d(i)
            /\ child.level = domain_root[ParentPath(p)].level + 1
            /\ child.relative_index = i
            /\ child.level + 1 \in DOMAIN ScopeOrder
            /\ domain_root[ParentPath(p)].scope = ScopeOrder[child.level]
            /\ child.scope = ScopeOrder[child.level + 1]
    /\ \A p, q \in DOMAIN domain_root :
         p # q => domain_root[p].domain_tag # domain_root[q].domain_tag

\* a tree of two nodes down to a core at level 4 with tag .1.0.0.0
C35_Witness ==
  /\ <<0>> \in DOMAIN domain_root
  /\ domain_root[<<0>>].domain_tag = <<".", "0">>
  /\ <<1, 0, 0, 0>> \in DOMAIN domain_root
  /\ domain_root[<<1, 0, 0, 0>>].domain_tag
       = <<".", "1", ".", "0", ".", "0", ".", "0">>
  /\ domain_root[<<1, 0, 0, 0>>].level = 4
  /\ domain_root[<<1, 0, 0, 0>>].scope = "CORE"

\* the places of the ready queues that hold task t
QueuePlaces(t) ==
  {<<k, i>> \in Threads \X (1 .. (2 * NumTasks)) :
     i <= Len(queue[k]) /\ queue[k][i] = t}

\* a thread is inside handle_task for task t
Registering(t) ==
  \E k \in Threads :
    /\ th[k].t = t
    /\ th[k].pc \in {"ht_dep", "ht_scan", "alloc", "alloc_lock", "al_push",
                     "sw_check", "sw_lock", "sw_walk"}

\* C36: a task with several dependencies is not in a ready queue while
\* handle_task is still registering its dependencies, and it is pushed at
\* most once: it is never in two places of the queues, and never in a queue
\* once it has been taken from one.
C36_EnqueuedOnceWhenRegistered ==
  \A t \in {u \in Tasks : Len(task[u].deps) >= 2} :
    /\ QueuePlaces(t) # {} => ~Registering(t)
    /\ Cardinality(QueuePlaces(t))
         + (IF task[t].state \in {"RUNNING", "FINISHED"} THEN 1 ELSE 0) <= 1

\* C37: the assertion 'Task already present in dependency hashmap' does not
\* fail when every task is registered once and its dependencies are on
\* pairwise different local addresses, whether or not the addresses share
\* a slot.
C37_AssertionHolds == last_ret # "ABORT" /\ Alive

\* C39: fini does not lock local_deps_mutex once it has destroyed it,
\* neither in the reset it performs nor in the recycling of an element, and
\* after fini every slot and the free list are empty.
C39_FiniLocksNothing ==
  [][(\E k \in Threads : Fini(k)) =>
       /\ FiniLocksAfterDestroy(S) = 0
       /\ local_deps_mutex' = MutexDestroyed
       /\ local_deps' = <<>>
       /\ freelist_head' = NULL]_vars

\* thread j waits for a mutex that thread k holds
WaitsFor(j, k) ==
  \/ AcquiresM(S, j) /\ local_deps_mutex = k
  \/ AcquiresTask(S, j) \cap HeldTaskMutexes(S, k) # {}

\* C38: whatever the interleaving of handle_task and its sweep,
\* handle_remote_task and the release calls, no two threads each wait for a
\* mutex (local_deps_mutex or a task's) that the other holds.
C38_NoDeadlock ==
  \A j, k \in Threads : j # k => ~(WaitsFor(j, k) /\ WaitsFor(k, j))

====
